------------------------ MODULE CpuScheduler_proofs ------------------------
(***************************************************************************)
(* The safety properties of CpuScheduler hold for every number of tasks,   *)
(* every size of the receive ring and every choice of system calls and     *)
(* targets, as long as none aims stop or kill at the idle thread and none  *)
(* ends a process that has called exec and not waited since; two of them   *)
(* need that no process calls exec at all.                                 *)
(***************************************************************************)
EXTENDS Signals, Queues_proofs

\* What the theorems assume of user processes: none ends the idle thread, and,
\* where exec would make the property false, none calls exec.
WellBehaved == IdlePid \notin Targets
NoExec      == "exec" \notin Syscalls

\* A step that leaves no task marked ready outside the ready queue, but for
\* those that were so before.
NoneStranded == Stranded' \subseteq Stranded

\* A step that kills no process stranded by exec.
SparesStranded == \A t \in Stranded : state'[t] # "KILLED"

-----------------------------------------------------------------------------
(* What the operations of the scheduler do to the sets of queued tasks.    *)

\* The elements S of wtg can be moved to the end of rdy.
Movable(A, rdy, wtg, S) ==
  /\ rdy \in Seq(A) /\ IsInjective(rdy)
  /\ wtg \in Seq(A) /\ IsInjective(wtg)
  /\ Range(rdy) \cap Range(wtg) = {}
  /\ S \subseteq Range(wtg)

\* r and w are what rdy and wtg become when that is done.
Moved(A, r, w, rdy, wtg, S) ==
  /\ r \in Seq(A) /\ IsInjective(r) /\ Range(r) = Range(rdy) \cup S
  /\ w \in Seq(A) /\ IsInjective(w) /\ Range(w) = Range(wtg) \ S

\* Firing an event moves the matching tasks from one queue to the other.
LEMMA MoveProperties ==
  ASSUME NEW A, NEW rdy, NEW wtg, NEW S, Movable(A, rdy, wtg, S)
  PROVE  Moved(A, rdy \o Keep(wtg, S), Keep(wtg, Range(wtg) \ S), rdy, wtg, S)
<1>. USE DEF Movable
<1>1. /\ Keep(wtg, S) \in Seq(A)
      /\ Range(Keep(wtg, S)) = S
      /\ IsInjective(Keep(wtg, S))
  <2>1. Range(wtg) \cap S = S
    OBVIOUS
  <2>. QED BY <2>1, KeepProperties, Zenon
<1>2. /\ Keep(wtg, Range(wtg) \ S) \in Seq(A)
      /\ IsInjective(Keep(wtg, Range(wtg) \ S))
      /\ Range(Keep(wtg, Range(wtg) \ S)) = Range(wtg) \ S
  BY KeepProperties
<1>3. /\ rdy \o Keep(wtg, S) \in Seq(A)
      /\ IsInjective(rdy \o Keep(wtg, S))
      /\ Range(rdy \o Keep(wtg, S)) = Range(rdy) \cup S
  BY <1>1, ConcatRange
<1>. QED BY <1>2, <1>3 DEF Moved

\* What killing pid does, S being the tasks that waited for its end.
KillOutcome(pid, S) ==
  /\ S = {t \in Pids : /\ state[t] = "WAITING" /\ t # pid
                       /\ wait_event[t].id = "PROCESS_KILL"
                       /\ wait_event[t].arg = pid}
  /\ ready_queue' \in Seq(Pids)
  /\ IsInjective(ready_queue')
  /\ Range(ready_queue') = (Range(ready_queue) \ {pid}) \cup S
  /\ waiting_queue' \in Seq(Pids)
  /\ IsInjective(waiting_queue')
  /\ Range(waiting_queue') = Range(waiting_queue) \ (S \cup {pid})
  /\ killed_queue' \in Seq(Pids)
  /\ (pid \notin Range(killed_queue)) => IsInjective(killed_queue')
  /\ Range(killed_queue') = Range(killed_queue) \cup {pid}
  /\ state' = [t \in Tasks |-> IF t \in S THEN "READY"
                               ELSE IF t = pid THEN "KILLED"
                               ELSE state[t]]

\* A task that is killed is not one that exec has stranded.
LEMMA KilledIsQueued ==
  ASSUME TypeOK, QueueInv, NEW pid \in Pids, DoKill(pid), SparesStranded
  PROVE  pid \notin Stranded
<1>. SUFFICES ASSUME pid \in Stranded PROVE FALSE
  OBVIOUS
<1>1. state[pid] = "READY" /\ pid \notin Range(waiting_queue)
  BY DEF Stranded, QueueInv
<1>. DEFINE S == {t \in WaitingFor(waiting_queue, "PROCESS_KILL") :
                     wait_event[t].arg = pid}
            st == [state EXCEPT ![pid] = "KILLED"]
<1>2. state' = [t \in Tasks |-> IF t \in S THEN "READY" ELSE st[t]]
  BY <1>1 DEF DoKill, FireCond
<1>3. pid \in Tasks /\ pid \notin S /\ st[pid] = "KILLED"
  BY <1>1 DEF TypeOK, Pids, Tasks, WaitingFor
<1>. HIDE DEF S, st
<1>4. state'[pid] = "KILLED"
  BY <1>2, <1>3
<1>. QED BY <1>4 DEF SparesStranded

\* Killing a task moves it to the killed queue and makes ready exactly the
\* tasks that wait for its end.
LEMMA KillEffect ==
  ASSUME TypeOK, QueueInv, NEW pid \in Pids,
         state[pid] \in {"READY", "RUNNING", "WAITING"},
         DoKill(pid), SparesStranded
  PROVE  \E S \in SUBSET Pids : KillOutcome(pid, S)
<1>0. pid \notin Stranded
  BY KilledIsQueued
<1>. DEFINE rdy == IF state[pid] = "READY"
                   THEN linked_list_remove(ready_queue, pid) ELSE ready_queue
            wtg == IF state[pid] = "WAITING"
                   THEN linked_list_remove(waiting_queue, pid)
                   ELSE waiting_queue
            st  == [state EXCEPT ![pid] = "KILLED"]
            S   == {t \in WaitingFor(wtg, "PROCESS_KILL") :
                      wait_event[t].arg = pid}
<1>1. /\ rdy \in Seq(Pids) /\ IsInjective(rdy)
      /\ Range(rdy) = Range(ready_queue) \ {pid}
  <2>1. CASE state[pid] = "READY"
    <3>1. pid \in Range(ready_queue) BY <1>0, <2>1 DEF Stranded
    <3>. QED BY <2>1, <3>1, RemoveProperties DEF TypeOK, QueueInv
  <2>2. CASE state[pid] # "READY"
    <3>1. pid \notin Range(ready_queue) BY <2>2 DEF QueueInv
    <3>. QED BY <2>2, <3>1 DEF TypeOK, QueueInv
  <2>. QED BY <2>1, <2>2
<1>2. /\ wtg \in Seq(Pids) /\ IsInjective(wtg)
      /\ Range(wtg) = Range(waiting_queue) \ {pid}
  <2>1. CASE state[pid] = "WAITING"
    <3>1. pid \in Range(waiting_queue) BY <2>1 DEF QueueInv
    <3>. QED BY <2>1, <3>1, RemoveProperties DEF TypeOK, QueueInv
  <2>2. CASE state[pid] # "WAITING"
    <3>1. pid \notin Range(waiting_queue) BY <2>2 DEF QueueInv
    <3>. QED BY <2>2, <3>1 DEF TypeOK, QueueInv
  <2>. QED BY <2>1, <2>2
<1>3. /\ state' = [t \in Tasks |-> IF t \in S THEN "READY" ELSE st[t]]
      /\ ready_queue' = rdy \o Keep(wtg, S)
      /\ waiting_queue' = Keep(wtg, Range(wtg) \ S)
  BY DEF DoKill, FireCond
<1>4. /\ killed_queue' \in Seq(Pids)
      /\ (pid \notin Range(killed_queue)) => IsInjective(killed_queue')
      /\ Range(killed_queue') = Range(killed_queue) \cup {pid}
  BY InsertProperties DEF DoKill, TypeOK, QueueInv, Stranded
<1>. HIDE DEF rdy, wtg
<1>5. S = {t \in Pids : /\ state[t] = "WAITING" /\ t # pid
                        /\ wait_event[t].id = "PROCESS_KILL"
                        /\ wait_event[t].arg = pid}
  BY <1>2 DEF WaitingFor, QueueInv
<1>6. Movable(Pids, rdy, wtg, S)
  BY <1>1, <1>2 DEF Movable, WaitingFor, QueueInv
<1>. HIDE DEF S, st
<1>7. Moved(Pids, ready_queue', waiting_queue', rdy, wtg, S)
  BY <1>3, <1>6, MoveProperties
<1>8. state' = [t \in Tasks |-> IF t \in S THEN "READY" ELSE st[t]]
  BY <1>3
<1>9. state' = [t \in Tasks |-> IF t \in S THEN "READY"
                                ELSE IF t = pid THEN "KILLED"
                                ELSE state[t]]
  BY <1>8 DEF st, TypeOK
<1>10. S \in SUBSET Pids
  BY <1>5
<1>11. Range(wtg) \ S = Range(waiting_queue) \ (S \cup {pid})
  BY <1>2
<1>12. KillOutcome(pid, S)
  BY <1>1, <1>4, <1>5, <1>7, <1>9, <1>11 DEF Moved, KillOutcome
<1>. QED BY <1>10, <1>12

\* The scheduler takes the first ready task and puts a running one last.
LEMMA PickEffect ==
  ASSUME TypeOK, QueueInv, BootInv, PickNext
  PROVE  /\ Head(ready_queue) \in Pids
         /\ state[Head(ready_queue)] = "READY"
         /\ ready_queue' \in Seq(Pids)
         /\ IsInjective(ready_queue')
         /\ Range(ready_queue') =
              (Range(ready_queue) \cup
                 (IF state[current] = "RUNNING" THEN {current} ELSE {}))
              \ {Head(ready_queue)}
         /\ state' = [t \in Tasks |-> IF t = Head(ready_queue) THEN "RUNNING"
                                      ELSE IF t = current /\ state[t] = "RUNNING"
                                           THEN "READY"
                                      ELSE state[t]]
<1>. DEFINE h == Head(ready_queue)
            rdy == IF state[current] = "RUNNING"
                   THEN linked_list_insert(ready_queue, current)
                   ELSE ready_queue
<1>1. h \in Range(ready_queue) /\ Range(ready_queue) \subseteq Pids
  BY HeadInRange DEF PickNext, TypeOK
<1>2. h \in Pids /\ state[h] = "READY"
  BY <1>1 DEF QueueInv
<1>3. /\ rdy \in Seq(Pids) /\ IsInjective(rdy)
      /\ Range(rdy) = Range(ready_queue) \cup
                        (IF state[current] = "RUNNING" THEN {current} ELSE {})
  <2>1. CASE state[current] = "RUNNING"
    <3>1. current \in Pids
      BY <2>1 DEF TypeOK, BootInv, BootPid, Tasks, Pids
    <3>2. current \notin Range(ready_queue)
      BY <2>1 DEF QueueInv
    <3>. QED BY <2>1, <3>1, <3>2, InsertProperties DEF TypeOK, QueueInv
  <2>2. CASE state[current] # "RUNNING"
    BY <2>2 DEF TypeOK, QueueInv
  <2>. QED BY <2>1, <2>2
<1>4. ready_queue' = linked_list_remove(rdy, h)
  BY DEF PickNext
<1>. HIDE DEF rdy
<1>5. /\ ready_queue' \in Seq(Pids)
      /\ IsInjective(ready_queue')
      /\ Range(ready_queue') = Range(rdy) \ {h}
  BY <1>1, <1>3, <1>4, RemoveProperties
<1>6. state' = [t \in Tasks |-> IF t = h THEN "RUNNING"
                                ELSE IF t = current /\ state[t] = "RUNNING"
                                     THEN "READY"
                                ELSE state[t]]
  <2>1. h \in Tasks BY <1>2 DEF Pids, Tasks
  <2>2. state' = [[state EXCEPT ![current] =
                     IF state[current] = "RUNNING" THEN "READY"
                     ELSE state[current]]
                    EXCEPT ![h] = "RUNNING"]
    BY DEF PickNext
  <2>. HIDE DEF h
  <2>. QED BY <2>1, <2>2 DEF TypeOK
<1>. QED BY <1>2, <1>3, <1>5, <1>6

-----------------------------------------------------------------------------
(* Preservation of the inductive invariant, action by action.  The facts   *)
(* about the small constants are used throughout.                          *)

\* How the sets of tasks, pids and processes lie in one another.
LEMMA Sorts ==
  /\ Pids \subseteq Tasks /\ Pids \subseteq Nat
  /\ 0 \in Tasks /\ 0 \notin Pids /\ 1 \in Pids /\ 2 \in Pids
  /\ \A t \in Tasks : t = 0 \/ t \in Pids
  /\ Processes = Pids \ {1, 2}
BY MaxPidAssumption
   DEF Tasks, Pids, Processes, KThreads, BootPid, IdlePid, CliPid

\* There are no processes among the first pids.
LEMMA FirstPids == \A t \in Pids : t < 3 => t = 1 \/ t = 2
BY MaxPidAssumption DEF Pids

\* A process executes as the running task, or stranded by exec, and only after
\* the command line has read its first character.
LEMMA ProcessCalls ==
  ASSUME SchedInv, current \in Processes, trap = "none"
  PROVE  /\ current \in Processes /\ trap = "none" /\ next = 0
         /\ state[current] = "RUNNING" \/ current \in Stranded
         /\ state[current] \in {"RUNNING", "READY"}
         /\ current \notin Range(ready_queue)
         /\ ~ sie[CliPid] /\ need_reschedule = FALSE
<1>. USE Sorts DEF BootPid, IdlePid, CliPid, KThreads
<1>1. /\ next = 0 /\ need_reschedule = FALSE
      /\ state[current] = "RUNNING" \/ current \in Stranded
  BY DEF SchedInv, TypeOK, SwitchInv, CurrentInv
<1>2. /\ state[current] \in {"RUNNING", "READY"}
      /\ current \notin Range(ready_queue)
  BY <1>1 DEF SchedInv, QueueInv, Stranded
<1>3. current < next_pid /\ current \in Pids /\ current # 1 /\ current # 2
  BY <1>2 DEF SchedInv, TableInv
<1>4. next_pid # 3
  BY <1>3
<1>. QED BY <1>1, <1>2, <1>4 DEF SchedInv, CliInv

\* The ready queue is empty only while the idle thread has the CPU.
LEMMA IdleReady ==
  ASSUME SchedInv, next = 0, ready_queue = << >>
  PROVE  current = IdlePid
<1>. USE Sorts DEF BootPid, IdlePid, CliPid, KThreads
<1>1. state[IdlePid] # "READY"
  <2>1. Range(ready_queue) = {}
    BY HeadInRange DEF SchedInv, TypeOK
  <2>2. 1 \in Pids
    OBVIOUS
  <2>. QED BY <2>1, <2>2 DEF SchedInv, QueueInv, Stranded
<1>2. state[IdlePid] = "RUNNING"
  BY <1>1 DEF SchedInv, IdleInv
<1>. QED BY <1>2 DEF SchedInv, QueueInv

\* Freeing a task whose entry is gone.
LEMMA IdleFreeKeeps ==
  ASSUME NEW t \in {BootPid, IdlePid}, SchedInv, IdleFree(t)
  PROVE  SchedInv' /\ NoneStranded
<1>. USE Sorts DEF BootPid, IdlePid, CliPid, KThreads
<1>0. TypeOK /\ QueueInv /\ BootInv /\ SwitchInv /\ CurrentInv /\
      IdleInv /\ TableInv /\ CliInv /\ ExecWaitSound /\ NoMissedInput
  BY DEF SchedInv
<1>a. t = IdlePid /\ node \in Pids
  BY <1>0 DEF TypeOK, TableInv, BootInv, IdleFree, At, InThread
<1>1. TypeOK'
  BY <1>0, <1>a
     DEF TypeOK, IdleFree, At, InThread, Goto, queues, States, IdleLabels,
         CliLabels
<1>2. QueueInv' /\ NoneStranded
  <2>1. freed' \cup {node'} = freed \cup {node} \cup {0}
    BY <1>0 DEF IdleFree
  <2>2. Range(killed_queue') =
          {u \in Pids : state'[u] = "KILLED"} \ (freed' \cup {node'})
    BY <1>0, <2>1 DEF QueueInv, IdleFree, queues
  <2>3. NoneStranded
    BY DEF NoneStranded, Stranded, IdleFree, queues
  <2>. QED BY <1>0, <2>2, <2>3 DEF QueueInv, NoneStranded, IdleFree, queues
<1>3. BootInv'
  BY <1>0, <1>a DEF TypeOK, BootInv, IdleFree, At, InThread, Goto, queues
<1>4. SwitchInv'
  BY <1>0, <1>a
     DEF TypeOK, SwitchInv, BootInv, IdleFree, At, InThread, Goto, queues
<1>5. CurrentInv'
  BY <1>0, <1>a DEF TypeOK, CurrentInv, IdleFree, At, InThread, Goto, queues
<1>6. IdleInv'
  BY <1>0, <1>a
     DEF TypeOK, IdleInv, IdleFree, At, InThread, Goto, queues, IdleLabels,
         CliLabels
<1>7. TableInv'
  BY <1>0, <1>a
     DEF TypeOK, TableInv, BootInv, IdleFree, At, InThread, Goto, queues
<1>8. CliInv'
  BY <1>0, <1>a
     DEF TypeOK, CliInv, IdleFree, At, InThread, Goto, queues, IdleLabels,
         CliLabels
<1>9. ExecWaitSound'
  BY <1>0, <1>a DEF TypeOK, ExecWaitSound, IdleFree, At, InThread, Goto, queues
<1>10. NoMissedInput'
  BY <1>0, <1>a DEF TypeOK, NoMissedInput, IdleFree, At, InThread, Goto, queues
<1>. QED BY <1>1, <1>2, <1>3, <1>4, <1>5, <1>6, <1>7, <1>8, <1>9,
         <1>10 DEF SchedInv

\* Removing the entry of a killed task.
LEMMA IdleUnlistKeeps ==
  ASSUME NEW t \in {BootPid, IdlePid}, SchedInv, IdleUnlist(t)
  PROVE  SchedInv' /\ NoneStranded
<1>. USE Sorts DEF BootPid, IdlePid, CliPid, KThreads
<1>0. TypeOK /\ QueueInv /\ BootInv /\ SwitchInv /\ CurrentInv /\
      IdleInv /\ TableInv /\ CliInv /\ ExecWaitSound /\ NoMissedInput
  BY DEF SchedInv
<1>1. TypeOK'
  BY <1>0
     DEF TypeOK, IdleUnlist, At, InThread, Goto, queues, States, IdleLabels,
         CliLabels
<1>2. QueueInv' /\ NoneStranded
  BY <1>0
     DEF TypeOK, QueueInv, IdleUnlist, At, InThread, Goto, queues, Stranded,
         NoneStranded
<1>3. BootInv'
  BY <1>0 DEF TypeOK, BootInv, IdleUnlist, At, InThread, Goto, queues
<1>4. SwitchInv'
  BY <1>0
     DEF TypeOK, SwitchInv, BootInv, IdleUnlist, At, InThread, Goto, queues
<1>5. CurrentInv'
  BY <1>0 DEF TypeOK, CurrentInv, IdleUnlist, At, InThread, Goto, queues
<1>6. IdleInv'
  BY <1>0
     DEF TypeOK, IdleInv, IdleUnlist, At, InThread, Goto, queues, IdleLabels,
         CliLabels
<1>7. TableInv'
  BY <1>0 DEF TypeOK, TableInv, BootInv, IdleUnlist, At, InThread, Goto, queues
<1>8. CliInv'
  BY <1>0
     DEF TypeOK, CliInv, IdleUnlist, At, InThread, Goto, queues, IdleLabels,
         CliLabels
<1>9. ExecWaitSound'
  BY <1>0 DEF TypeOK, ExecWaitSound, IdleUnlist, At, InThread, Goto, queues
<1>10. NoMissedInput'
  BY <1>0 DEF TypeOK, NoMissedInput, IdleUnlist, At, InThread, Goto, queues
<1>. QED BY <1>1, <1>2, <1>3, <1>4, <1>5, <1>6, <1>7, <1>8, <1>9,
         <1>10 DEF SchedInv

\* The idle thread finds no killed task.
LEMMA IdleReapNothingKeeps ==
  ASSUME NEW t \in {BootPid, IdlePid}, SchedInv, IdleReap(t), killed_queue = << >>
  PROVE  SchedInv' /\ NoneStranded
<1>. USE Sorts DEF BootPid, IdlePid, CliPid, KThreads
<1>0. TypeOK /\ QueueInv /\ BootInv /\ SwitchInv /\ CurrentInv /\
      IdleInv /\ TableInv /\ CliInv /\ ExecWaitSound /\ NoMissedInput
  BY DEF SchedInv
<1>a. UNCHANGED <<killed_queue, node>> /\ pc' = [pc EXCEPT ![t] = "yield"]
  BY DEF IdleReap, Goto
<1>1. TypeOK'
  BY <1>0, <1>a
     DEF TypeOK, IdleReap, At, InThread, Goto, queues, States, IdleLabels,
         CliLabels
<1>2. QueueInv' /\ NoneStranded
  BY <1>0, <1>a
     DEF TypeOK, QueueInv, IdleReap, At, InThread, Goto, queues, Stranded,
         NoneStranded
<1>3. BootInv'
  BY <1>0, <1>a DEF TypeOK, BootInv, IdleReap, At, InThread, Goto, queues
<1>4. SwitchInv'
  BY <1>0, <1>a
     DEF TypeOK, SwitchInv, BootInv, IdleReap, At, InThread, Goto, queues
<1>5. CurrentInv'
  BY <1>0, <1>a DEF TypeOK, CurrentInv, IdleReap, At, InThread, Goto, queues
<1>6. IdleInv'
  BY <1>0, <1>a
     DEF TypeOK, IdleInv, IdleReap, At, InThread, Goto, queues, IdleLabels,
         CliLabels
<1>7. TableInv'
  BY <1>0, <1>a
     DEF TypeOK, TableInv, BootInv, IdleReap, At, InThread, Goto, queues
<1>8. CliInv'
  BY <1>0, <1>a
     DEF TypeOK, CliInv, IdleReap, At, InThread, Goto, queues, IdleLabels,
         CliLabels
<1>9. ExecWaitSound'
  BY <1>0, <1>a DEF TypeOK, ExecWaitSound, IdleReap, At, InThread, Goto, queues
<1>10. NoMissedInput'
  BY <1>0, <1>a DEF TypeOK, NoMissedInput, IdleReap, At, InThread, Goto, queues
<1>. QED BY <1>1, <1>2, <1>3, <1>4, <1>5, <1>6, <1>7, <1>8, <1>9,
         <1>10 DEF SchedInv

\* The idle thread takes a task off the killed queue.
LEMMA IdleReapOneKeeps ==
  ASSUME NEW t \in {BootPid, IdlePid}, SchedInv, IdleReap(t), killed_queue # << >>
  PROVE  SchedInv' /\ NoneStranded
<1>. USE Sorts DEF BootPid, IdlePid, CliPid, KThreads
<1>0. TypeOK /\ QueueInv /\ BootInv /\ SwitchInv /\ CurrentInv /\
      IdleInv /\ TableInv /\ CliInv /\ ExecWaitSound /\ NoMissedInput
  BY DEF SchedInv
<1>a. t = IdlePid /\ node = 0 /\ pc[IdlePid] = "reap" /\ current = IdlePid
  BY <1>0 DEF BootInv, TableInv, IdleReap, At, InThread
<1>b. PICK h \in Pids :
        /\ node' = h
        /\ state[h] = "KILLED"
        /\ h \notin freed
        /\ killed_queue' \in Seq(Pids)
        /\ IsInjective(killed_queue')
        /\ Range(killed_queue') = Range(killed_queue) \ {h}
  <2>2. killed_queue \in Seq(Pids) /\ IsInjective(killed_queue)
    BY <1>0 DEF TypeOK, QueueInv
  <2>3. Head(killed_queue) \in Range(killed_queue)
    BY <2>2, HeadInRange
  <2>4. killed_queue' = linked_list_remove(killed_queue, Head(killed_queue))
    BY DEF IdleReap
  <2>5. /\ killed_queue' \in Seq(Pids)
        /\ IsInjective(killed_queue')
        /\ Range(killed_queue') = Range(killed_queue) \ {Head(killed_queue)}
    BY <2>2, <2>3, <2>4, RemoveProperties
  <2>6. node' = Head(killed_queue)
    BY DEF IdleReap
  <2>. QED BY <1>0, <2>3, <2>5, <2>6 DEF QueueInv
<1>c. pc' = [pc EXCEPT ![IdlePid] = "unlist"]
  BY <1>a DEF IdleReap, Goto
<1>d. UNCHANGED <<current, state, wait_event, ready_queue, waiting_queue,
                 task_table, freed, next_pid, sie, next, trap,
                 need_reschedule, quantum, timeouts, rx>>
  BY DEF IdleReap
<1>1. TypeOK'
  BY <1>0, <1>a, <1>b, <1>c, <1>d DEF TypeOK, States, IdleLabels, CliLabels
<1>2. QueueInv' /\ NoneStranded
  BY <1>0, <1>a, <1>b, <1>c, <1>d DEF TypeOK, QueueInv, Stranded, NoneStranded
<1>3. BootInv'
  BY <1>0, <1>a, <1>b, <1>c, <1>d DEF TypeOK, BootInv
<1>4. SwitchInv'
  BY <1>0, <1>a, <1>b, <1>c, <1>d DEF TypeOK, SwitchInv
<1>5. CurrentInv'
  BY <1>0, <1>a, <1>b, <1>c, <1>d DEF TypeOK, CurrentInv
<1>6. IdleInv'
  BY <1>0, <1>a, <1>b, <1>c, <1>d DEF TypeOK, IdleInv, IdleLabels, CliLabels
<1>7. TableInv'
  BY <1>0, <1>a, <1>b, <1>c, <1>d DEF TypeOK, TableInv, IdleInv
<1>8. CliInv'
  BY <1>0, <1>a, <1>b, <1>c, <1>d DEF TypeOK, CliInv, IdleLabels, CliLabels
<1>9. ExecWaitSound'
  BY <1>0, <1>a, <1>b, <1>c, <1>d DEF TypeOK, ExecWaitSound
<1>10. NoMissedInput'
  BY <1>0, <1>a, <1>b, <1>c, <1>d DEF TypeOK, NoMissedInput
<1>. QED BY <1>1, <1>2, <1>3, <1>4, <1>5, <1>6, <1>7, <1>8, <1>9,
         <1>10 DEF SchedInv

\* The switch of a kernel thread to the task chosen before.
LEMMA SwitchKeeps ==
  ASSUME NEW t \in KThreads, SchedInv, switch_to_kernel(t)
  PROVE  SchedInv' /\ NoneStranded
<1>. USE Sorts DEF BootPid, IdlePid, CliPid, KThreads
<1>0. TypeOK /\ QueueInv /\ BootInv /\ SwitchInv /\ CurrentInv /\
      IdleInv /\ TableInv /\ CliInv /\ ExecWaitSound /\ NoMissedInput
  BY DEF SchedInv
<1>a. next \in Pids /\ state[next] = "RUNNING" /\ current = t
  <2>1. current = t /\ pc[t] = "switch"
    BY DEF switch_to_kernel, At, InThread
  <2>2. next # 0 /\ state[next] = "RUNNING"
    BY <1>0, <2>1 DEF SwitchInv
  <2>. QED BY <1>0, <2>1, <2>2 DEF TypeOK
<1>1. TypeOK'
  BY <1>0, <1>a
     DEF TypeOK, switch_to_kernel, AfterNext, At, InThread, Goto, queues,
         States, IdleLabels, CliLabels
<1>2. QueueInv' /\ NoneStranded
  BY <1>0, <1>a
     DEF TypeOK, QueueInv, switch_to_kernel, AfterNext, At, InThread, Goto,
         queues, Stranded, NoneStranded
<1>3. BootInv'
  BY <1>0, <1>a
     DEF TypeOK, BootInv, switch_to_kernel, AfterNext, At, InThread, Goto,
         queues
<1>4. SwitchInv'
  BY <1>0, <1>a
     DEF TypeOK, SwitchInv, BootInv, CurrentInv, switch_to_kernel, AfterNext,
         At, InThread, Goto, queues
<1>5. CurrentInv'
  BY <1>0, <1>a
     DEF TypeOK, CurrentInv, SwitchInv, CliInv, switch_to_kernel, AfterNext,
         At, InThread, Goto, queues
<1>6. IdleInv'
  BY <1>0, <1>a
     DEF TypeOK, IdleInv, switch_to_kernel, AfterNext, At, InThread, Goto,
         queues, IdleLabels, CliLabels
<1>7. TableInv'
  BY <1>0, <1>a
     DEF TypeOK, TableInv, BootInv, switch_to_kernel, AfterNext, At, InThread,
         Goto, queues
<1>8. CliInv'
  BY <1>0, <1>a
     DEF TypeOK, CliInv, SwitchInv, QueueInv, switch_to_kernel, AfterNext, At,
         InThread, Goto, queues, IdleLabels, CliLabels
<1>9. ExecWaitSound'
  BY <1>0, <1>a
     DEF TypeOK, ExecWaitSound, switch_to_kernel, AfterNext, At, InThread,
         Goto, queues
<1>10. NoMissedInput'
  BY <1>0, <1>a
     DEF TypeOK, NoMissedInput, switch_to_kernel, AfterNext, At, InThread,
         Goto, queues
<1>. QED BY <1>1, <1>2, <1>3, <1>4, <1>5, <1>6, <1>7, <1>8, <1>9,
         <1>10 DEF SchedInv

\* A kernel thread chooses the next task.
LEMMA ThreadNextPickKeeps ==
  ASSUME NEW t \in KThreads, NEW label,
         (t # CliPid /\ label = "yield") \/ (t = CliPid /\ label = "next"),
         SchedInv, ThreadNext(t, label), PickNext
  PROVE  SchedInv' /\ NoneStranded
<1>. USE Sorts DEF BootPid, IdlePid, CliPid, KThreads
<1>0. TypeOK /\ QueueInv /\ BootInv /\ SwitchInv /\ CurrentInv /\
      IdleInv /\ TableInv /\ CliInv /\ ExecWaitSound /\ NoMissedInput
  BY DEF SchedInv
<1>a. next = 0 /\ need_reschedule = FALSE
  BY <1>0 DEF SwitchInv, CurrentInv, ThreadNext, At, InThread
<1>b. PICK h \in Pids :
        /\ h = Head(ready_queue)
        /\ state[h] = "READY"
        /\ ready_queue' \in Seq(Pids)
        /\ IsInjective(ready_queue')
        /\ Range(ready_queue') =
             (Range(ready_queue) \cup
                (IF state[current] = "RUNNING" THEN {current} ELSE {})) \ {h}
        /\ state' = [u \in Tasks |-> IF u = h THEN "RUNNING"
                                     ELSE IF u = current /\ state[u] = "RUNNING"
                                          THEN "READY"
                                     ELSE state[u]]
  BY <1>0, PickEffect
<1>c. UNCHANGED <<waiting_queue, killed_queue>> /\ quantum' = TRUE
  BY DEF PickNext
<1>d. /\ current = t /\ pc[t] = label /\ trap = "none"
      /\ next' = h /\ pc' = [pc EXCEPT ![t] = "switch"]
      /\ UNCHANGED <<current, wait_event, task_table, freed, next_pid, sie, node,
                     trap, need_reschedule, timeouts, rx>>
  BY <1>b DEF ThreadNext, At, InThread, Goto, PickNext
<1>1. TypeOK'
  BY <1>0, <1>a, <1>b, <1>c, <1>d DEF TypeOK, States, IdleLabels, CliLabels
<1>2. QueueInv' /\ NoneStranded
  <2>1. \A u \in Tasks : state'[u] = IF u = h THEN "RUNNING"
                                ELSE IF u = current /\ state[u] = "RUNNING"
                                     THEN "READY"
                                ELSE state[u]
    BY <1>b
  <2>2. current \in Tasks /\ (state[current] = "RUNNING" => current \in Pids)
    BY <1>0 DEF TypeOK, BootInv
  <2>3. Range(ready_queue') \subseteq {u \in Pids : state'[u] = "READY"}
    BY <1>0, <1>b, <2>1, <2>2 DEF QueueInv
  <2>4. NoneStranded
    <3>1. ASSUME NEW u \in Pids, state'[u] = "READY", u \notin Range(ready_queue')
          PROVE  state[u] = "READY" /\ u \notin Range(ready_queue)
      <4>1. u \in Tasks /\ u # h
        BY <2>1, <3>1
      <4>2. ~(u = current /\ state[u] = "RUNNING")
        BY <1>b, <3>1, <4>1
      <4>. QED BY <1>b, <2>1, <3>1, <4>1, <4>2
    <3>. QED BY <3>1 DEF NoneStranded, Stranded
  <2>5. Range(waiting_queue') = {u \in Pids : state'[u] = "WAITING"}
    BY <1>0, <1>b, <1>c, <2>1 DEF QueueInv
  <2>6. Range(killed_queue') =
          {u \in Pids : state'[u] = "KILLED"} \ (freed' \cup {node'})
    BY <1>0, <1>b, <1>c, <1>d, <2>1 DEF QueueInv
  <2>7. \A u \in Pids : state'[u] = "RUNNING" => u = h
    BY <1>0, <1>a, <2>1 DEF QueueInv
  <2>8. Stranded' \subseteq Processes
    BY <1>0, <2>4 DEF QueueInv, NoneStranded
  <2>9. /\ IsInjective(ready_queue') /\ IsInjective(waiting_queue')
        /\ IsInjective(killed_queue')
    BY <1>0, <1>b, <1>c DEF QueueInv
  <2>10. \A u \in Pids : state'[u] = "RUNNING" =>
                          IF next' = 0 THEN u = current' ELSE u = next'
    BY <1>b, <1>d, <2>7
  <2>11. QueueInv'
    BY <2>3, <2>5, <2>6, <2>8, <2>9, <2>10 DEF QueueInv
  <2>. QED BY <2>4, <2>11
<1>3. BootInv'
  BY <1>0, <1>a, <1>b, <1>c, <1>d DEF TypeOK, BootInv
<1>4. SwitchInv'
  BY <1>0, <1>a, <1>b, <1>c, <1>d DEF TypeOK, SwitchInv
<1>5. CurrentInv'
  BY <1>0, <1>a, <1>b, <1>c, <1>d DEF TypeOK, CurrentInv
<1>6. IdleInv'
  BY <1>0, <1>a, <1>b, <1>c, <1>d DEF TypeOK, IdleInv, IdleLabels, CliLabels
<1>7. TableInv'
  BY <1>0, <1>a, <1>b, <1>c, <1>d DEF TypeOK, TableInv, SwitchInv
<1>8. CliInv'
  BY <1>0, <1>a, <1>b, <1>c, <1>d DEF TypeOK, CliInv, IdleLabels, CliLabels
<1>9. ExecWaitSound'
  BY <1>0, <1>a, <1>b, <1>c, <1>d DEF TypeOK, ExecWaitSound
<1>10. NoMissedInput'
  BY <1>0, <1>a, <1>b, <1>c, <1>d DEF TypeOK, NoMissedInput
<1>. QED BY <1>1, <1>2, <1>3, <1>4, <1>5, <1>6, <1>7, <1>8, <1>9,
         <1>10 DEF SchedInv

\* A kernel thread finds no task ready and goes on.
LEMMA ThreadNextNoneKeeps ==
  ASSUME NEW t \in KThreads, NEW label,
         (t # CliPid /\ label = "yield") \/ (t = CliPid /\ label = "next"),
         SchedInv, ThreadNext(t, label), ready_queue = << >>
  PROVE  SchedInv' /\ NoneStranded
<1>. USE Sorts DEF BootPid, IdlePid, CliPid, KThreads
<1>0. TypeOK /\ QueueInv /\ BootInv /\ SwitchInv /\ CurrentInv /\
      IdleInv /\ TableInv /\ CliInv /\ ExecWaitSound /\ NoMissedInput
  BY DEF SchedInv
<1>a. next = 0
  BY <1>0 DEF SwitchInv, ThreadNext, At, InThread
<1>b. /\ current = t /\ pc[t] = label /\ trap = "none"
      /\ pc' = [pc EXCEPT ![t] = AfterNext(t)]
      /\ UNCHANGED <<state, queues, quantum, next, current, wait_event, task_table,
                     freed, next_pid, sie, node, trap, need_reschedule,
                     timeouts, rx>>
  BY DEF ThreadNext, At, InThread, Goto, PickNext
<1>c. t # CliPid
  <2>1. state[IdlePid] # "READY"
    <3>1. IdlePid \notin Range(ready_queue)
      BY DEF Range
    <3>2. IdlePid \in Pids /\ IdlePid \notin Processes
      BY DEF Processes
    <3>3. Stranded \subseteq Processes
      BY <1>0 DEF QueueInv
    <3>. QED BY <3>1, <3>2, <3>3 DEF Stranded
  <2>2. current = IdlePid \/ current = BootPid
    BY <1>0, <1>a, <2>1 DEF QueueInv, IdleInv
  <2>. QED BY <1>b, <2>2
<1>1. TypeOK'
  BY <1>0, <1>a, <1>b, <1>c
     DEF TypeOK, AfterNext, queues, States, IdleLabels, CliLabels
<1>2. QueueInv' /\ NoneStranded
  BY <1>0, <1>a, <1>b, <1>c
     DEF TypeOK, QueueInv, AfterNext, queues, Stranded, NoneStranded
<1>3. BootInv'
  BY <1>0, <1>a, <1>b, <1>c DEF TypeOK, BootInv, AfterNext, queues
<1>4. SwitchInv'
  BY <1>0, <1>a, <1>b, <1>c DEF TypeOK, SwitchInv, AfterNext, queues
<1>5. CurrentInv'
  BY <1>0, <1>a, <1>b, <1>c DEF TypeOK, CurrentInv, AfterNext, queues
<1>6. IdleInv'
  BY <1>0, <1>a, <1>b, <1>c
     DEF TypeOK, IdleInv, AfterNext, queues, IdleLabels, CliLabels
<1>7. TableInv'
  BY <1>0, <1>a, <1>b, <1>c DEF TypeOK, TableInv, AfterNext, queues
<1>8. CliInv'
  BY <1>0, <1>a, <1>b, <1>c
     DEF TypeOK, CliInv, AfterNext, queues, IdleLabels, CliLabels
<1>9. ExecWaitSound'
  BY <1>0, <1>a, <1>b, <1>c DEF TypeOK, ExecWaitSound, AfterNext, queues
<1>10. NoMissedInput'
  BY <1>0, <1>a, <1>b, <1>c DEF TypeOK, NoMissedInput, AfterNext, queues
<1>. QED BY <1>1, <1>2, <1>3, <1>4, <1>5, <1>6, <1>7, <1>8, <1>9,
         <1>10 DEF SchedInv

\* The end of a session that was asked to reschedule.
LEMMA EndSessionSwitchKeeps ==
  ASSUME SchedInv, EndSession, need_reschedule, PickNext
  PROVE  SchedInv' /\ NoneStranded
<1>. USE Sorts DEF BootPid, IdlePid, CliPid, KThreads
<1>0. TypeOK /\ QueueInv /\ BootInv /\ SwitchInv /\ CurrentInv /\
      IdleInv /\ TableInv /\ CliInv /\ ExecWaitSound /\ NoMissedInput
  BY DEF SchedInv
<1>a. next = 0
  BY <1>0 DEF SwitchInv
<1>b. PICK h \in Pids :
        /\ h = Head(ready_queue)
        /\ state[h] = "READY"
        /\ ready_queue' \in Seq(Pids)
        /\ IsInjective(ready_queue')
        /\ Range(ready_queue') =
             (Range(ready_queue) \cup
                (IF state[current] = "RUNNING" THEN {current} ELSE {})) \ {h}
        /\ state' = [u \in Tasks |-> IF u = h THEN "RUNNING"
                                     ELSE IF u = current /\ state[u] = "RUNNING"
                                          THEN "READY"
                                     ELSE state[u]]
  BY <1>0, PickEffect
<1>c. UNCHANGED <<waiting_queue, killed_queue>> /\ quantum' = TRUE
  BY DEF PickNext
<1>d. /\ current' = h /\ trap' = "none" /\ need_reschedule' = FALSE
      /\ UNCHANGED <<wait_event, task_table, freed, next_pid, sie, pc, node, next,
                     timeouts, rx>>
  BY <1>b DEF EndSession, NextInTrap, PickNext
<1>e. trap = "session"
  BY DEF EndSession
<1>1. TypeOK'
  BY <1>0, <1>a, <1>b, <1>c, <1>d, <1>e
     DEF TypeOK, States, IdleLabels, CliLabels
<1>2. QueueInv' /\ NoneStranded
  <2>1. \A u \in Tasks : state'[u] = IF u = h THEN "RUNNING"
                                ELSE IF u = current /\ state[u] = "RUNNING"
                                     THEN "READY"
                                ELSE state[u]
    BY <1>b
  <2>2. current \in Tasks /\ (state[current] = "RUNNING" => current \in Pids)
    BY <1>0 DEF TypeOK, BootInv
  <2>3. Range(ready_queue') \subseteq {u \in Pids : state'[u] = "READY"}
    BY <1>0, <1>b, <2>1, <2>2 DEF QueueInv
  <2>4. NoneStranded
    <3>1. ASSUME NEW u \in Pids, state'[u] = "READY", u \notin Range(ready_queue')
          PROVE  state[u] = "READY" /\ u \notin Range(ready_queue)
      <4>1. u \in Tasks /\ u # h
        BY <2>1, <3>1
      <4>2. ~(u = current /\ state[u] = "RUNNING")
        BY <1>b, <3>1, <4>1
      <4>. QED BY <1>b, <2>1, <3>1, <4>1, <4>2
    <3>. QED BY <3>1 DEF NoneStranded, Stranded
  <2>5. Range(waiting_queue') = {u \in Pids : state'[u] = "WAITING"}
    BY <1>0, <1>b, <1>c, <2>1 DEF QueueInv
  <2>6. Range(killed_queue') =
          {u \in Pids : state'[u] = "KILLED"} \ (freed' \cup {node'})
    BY <1>0, <1>b, <1>c, <1>d, <2>1 DEF QueueInv
  <2>7. \A u \in Pids : state'[u] = "RUNNING" => u = h
    BY <1>0, <1>a, <2>1 DEF QueueInv
  <2>8. Stranded' \subseteq Processes
    BY <1>0, <2>4 DEF QueueInv, NoneStranded
  <2>9. /\ IsInjective(ready_queue') /\ IsInjective(waiting_queue')
        /\ IsInjective(killed_queue')
    BY <1>0, <1>b, <1>c DEF QueueInv
  <2>10. \A u \in Pids : state'[u] = "RUNNING" =>
                          IF next' = 0 THEN u = current' ELSE u = next'
    BY <1>a, <1>b, <1>d, <2>7
  <2>11. QueueInv'
    BY <2>3, <2>5, <2>6, <2>8, <2>9, <2>10 DEF QueueInv
  <2>. QED BY <2>4, <2>11
<1>3. BootInv'
  BY <1>0, <1>a, <1>b, <1>c, <1>d, <1>e DEF TypeOK, BootInv
<1>4. SwitchInv'
  BY <1>0, <1>a, <1>b, <1>c, <1>d, <1>e DEF TypeOK, SwitchInv
<1>5. CurrentInv'
  BY <1>0, <1>a, <1>b, <1>c, <1>d, <1>e
     DEF TypeOK, CurrentInv, CliInv, SwitchInv
<1>6. IdleInv'
  BY <1>0, <1>a, <1>b, <1>c, <1>d, <1>e
     DEF TypeOK, IdleInv, IdleLabels, CliLabels
<1>7. TableInv'
  BY <1>0, <1>a, <1>b, <1>c, <1>d, <1>e DEF TypeOK, TableInv
<1>8. CliInv'
  BY <1>0, <1>a, <1>b, <1>c, <1>d, <1>e
     DEF TypeOK, CliInv, IdleLabels, CliLabels
<1>9. ExecWaitSound'
  BY <1>0, <1>a, <1>b, <1>c, <1>d, <1>e DEF TypeOK, ExecWaitSound
<1>10. NoMissedInput'
  BY <1>0, <1>a, <1>b, <1>c, <1>d, <1>e DEF TypeOK, NoMissedInput
<1>. QED BY <1>1, <1>2, <1>3, <1>4, <1>5, <1>6, <1>7, <1>8, <1>9,
         <1>10 DEF SchedInv

\* The end of a session that goes back to the interrupted task.
LEMMA EndSessionReturnKeeps ==
  ASSUME SchedInv, EndSession,
         ~ need_reschedule \/ ready_queue = << >>
  PROVE  SchedInv' /\ NoneStranded
<1>. USE Sorts DEF BootPid, IdlePid, CliPid, KThreads
<1>0. TypeOK /\ QueueInv /\ BootInv /\ SwitchInv /\ CurrentInv /\
      IdleInv /\ TableInv /\ CliInv /\ ExecWaitSound /\ NoMissedInput
  BY DEF SchedInv
<1>a. /\ trap = "session" /\ trap' = "none" /\ need_reschedule' = FALSE
      /\ UNCHANGED <<state, queues, quantum, current, wait_event, task_table,
                     freed, next_pid, sie, pc, node, next, timeouts, rx>>
  BY DEF EndSession, NextInTrap, PickNext
<1>b. need_reschedule => current = IdlePid
  BY <1>0, IdleReady DEF SwitchInv
<1>1. TypeOK'
  BY <1>0, <1>a, <1>b DEF TypeOK, queues, States, IdleLabels, CliLabels
<1>2. QueueInv' /\ NoneStranded
  BY <1>0, <1>a, <1>b DEF TypeOK, QueueInv, queues, Stranded, NoneStranded
<1>3. BootInv'
  BY <1>0, <1>a, <1>b DEF TypeOK, BootInv, queues
<1>4. SwitchInv'
  BY <1>0, <1>a, <1>b DEF TypeOK, SwitchInv, queues
<1>5. CurrentInv'
  BY <1>0, <1>a, <1>b DEF TypeOK, CurrentInv, queues, Stranded
<1>6. IdleInv'
  BY <1>0, <1>a, <1>b DEF TypeOK, IdleInv, queues, IdleLabels, CliLabels
<1>7. TableInv'
  BY <1>0, <1>a, <1>b DEF TypeOK, TableInv, queues
<1>8. CliInv'
  BY <1>0, <1>a, <1>b DEF TypeOK, CliInv, queues, IdleLabels, CliLabels
<1>9. ExecWaitSound'
  BY <1>0, <1>a, <1>b DEF TypeOK, ExecWaitSound, queues
<1>10. NoMissedInput'
  BY <1>0, <1>a, <1>b DEF TypeOK, NoMissedInput, queues
<1>. QED BY <1>1, <1>2, <1>3, <1>4, <1>5, <1>6, <1>7, <1>8, <1>9,
         <1>10 DEF SchedInv

\* The switch away from a process killed by a page fault.
LEMMA PageFaultNextKeeps ==
  ASSUME SchedInv, PageFaultNext, PickNext
  PROVE  SchedInv' /\ NoneStranded
<1>. USE Sorts DEF BootPid, IdlePid, CliPid, KThreads
<1>0. TypeOK /\ QueueInv /\ BootInv /\ SwitchInv /\ CurrentInv /\
      IdleInv /\ TableInv /\ CliInv /\ ExecWaitSound /\ NoMissedInput
  BY DEF SchedInv
<1>a. next = 0
  BY <1>0, Sorts DEF SwitchInv, CurrentInv, PageFaultNext
<1>b. PICK h \in Pids :
        /\ h = Head(ready_queue)
        /\ state[h] = "READY"
        /\ ready_queue' \in Seq(Pids)
        /\ IsInjective(ready_queue')
        /\ Range(ready_queue') =
             (Range(ready_queue) \cup
                (IF state[current] = "RUNNING" THEN {current} ELSE {})) \ {h}
        /\ state' = [u \in Tasks |-> IF u = h THEN "RUNNING"
                                     ELSE IF u = current /\ state[u] = "RUNNING"
                                          THEN "READY"
                                     ELSE state[u]]
  BY <1>0, PickEffect
<1>c. UNCHANGED <<waiting_queue, killed_queue>> /\ quantum' = TRUE
  BY DEF PickNext
<1>d. need_reschedule = FALSE
  BY <1>0 DEF PageFaultNext, CurrentInv
<1>e. /\ current' = h /\ trap' = "none" /\ need_reschedule' = FALSE
      /\ UNCHANGED <<wait_event, task_table, freed, next_pid, sie, pc, node, next,
                     timeouts, rx>>
  BY <1>b, <1>d DEF PageFaultNext, NextInTrap, PickNext
<1>f. trap = "fault"
  BY DEF PageFaultNext
<1>1. TypeOK'
  BY <1>0, <1>a, <1>b, <1>c, <1>d, <1>e, <1>f
     DEF TypeOK, States, IdleLabels, CliLabels
<1>2. QueueInv' /\ NoneStranded
  <2>1. \A u \in Tasks : state'[u] = IF u = h THEN "RUNNING"
                                ELSE IF u = current /\ state[u] = "RUNNING"
                                     THEN "READY"
                                ELSE state[u]
    BY <1>b
  <2>2. current \in Tasks /\ (state[current] = "RUNNING" => current \in Pids)
    BY <1>0 DEF TypeOK, BootInv
  <2>3. Range(ready_queue') \subseteq {u \in Pids : state'[u] = "READY"}
    BY <1>0, <1>b, <2>1, <2>2 DEF QueueInv
  <2>4. NoneStranded
    <3>1. ASSUME NEW u \in Pids, state'[u] = "READY", u \notin Range(ready_queue')
          PROVE  state[u] = "READY" /\ u \notin Range(ready_queue)
      <4>1. u \in Tasks /\ u # h
        BY <2>1, <3>1
      <4>2. ~(u = current /\ state[u] = "RUNNING")
        BY <1>b, <3>1, <4>1
      <4>. QED BY <1>b, <2>1, <3>1, <4>1, <4>2
    <3>. QED BY <3>1 DEF NoneStranded, Stranded
  <2>5. Range(waiting_queue') = {u \in Pids : state'[u] = "WAITING"}
    BY <1>0, <1>b, <1>c, <2>1 DEF QueueInv
  <2>6. Range(killed_queue') =
          {u \in Pids : state'[u] = "KILLED"} \ (freed' \cup {node'})
    BY <1>0, <1>b, <1>c, <1>e, <2>1 DEF QueueInv
  <2>7. \A u \in Pids : state'[u] = "RUNNING" => u = h
    BY <1>0, <1>a, <2>1 DEF QueueInv
  <2>8. Stranded' \subseteq Processes
    BY <1>0, <2>4 DEF QueueInv, NoneStranded
  <2>9. next' = 0 /\ current' = h
    BY <1>a, <1>e
  <2>10. /\ IsInjective(ready_queue') /\ IsInjective(waiting_queue')
         /\ IsInjective(killed_queue')
    BY <1>0, <1>b, <1>c DEF QueueInv
  <2>11. QueueInv'
    BY <2>3, <2>5, <2>6, <2>7, <2>8, <2>9, <2>10 DEF QueueInv
  <2>. QED BY <2>4, <2>11
<1>3. BootInv'
  BY <1>0, <1>a, <1>b, <1>c, <1>d, <1>e, <1>f DEF TypeOK, BootInv
<1>4. SwitchInv'
  BY <1>0, <1>a, <1>b, <1>c, <1>d, <1>e, <1>f DEF TypeOK, SwitchInv
<1>5. CurrentInv'
  BY <1>0, <1>a, <1>b, <1>c, <1>d, <1>e, <1>f
     DEF TypeOK, CurrentInv, CliInv, SwitchInv
<1>6. IdleInv'
  BY <1>0, <1>a, <1>b, <1>c, <1>d, <1>e, <1>f
     DEF TypeOK, IdleInv, IdleLabels, CliLabels
<1>7. TableInv'
  BY <1>0, <1>a, <1>b, <1>c, <1>d, <1>e, <1>f DEF TypeOK, TableInv
<1>8. CliInv'
  BY <1>0, <1>a, <1>b, <1>c, <1>d, <1>e, <1>f
     DEF TypeOK, CliInv, IdleLabels, CliLabels
<1>9. ExecWaitSound'
  BY <1>0, <1>a, <1>b, <1>c, <1>d, <1>e, <1>f DEF TypeOK, ExecWaitSound
<1>10. NoMissedInput'
  BY <1>0, <1>a, <1>b, <1>c, <1>d, <1>e, <1>f DEF TypeOK, NoMissedInput
<1>. QED BY <1>1, <1>2, <1>3, <1>4, <1>5, <1>6, <1>7, <1>8, <1>9,
         <1>10 DEF SchedInv

\* A sleep timeout fires.
LEMMA TimerSleepKeeps ==
  ASSUME NEW pid \in Pids, SchedInv, TimerSleep(pid)
  PROVE  SchedInv' /\ NoneStranded
<1>. USE Sorts DEF BootPid, IdlePid, CliPid, KThreads
<1>0. TypeOK /\ QueueInv /\ BootInv /\ SwitchInv /\ CurrentInv /\
      IdleInv /\ TableInv /\ CliInv /\ ExecWaitSound /\ NoMissedInput
  BY DEF SchedInv
<1>a. PICK S \in SUBSET Pids :
        /\ S = WaitingFor(waiting_queue, "TIMEOUT") \cap {pid}
        /\ Moved(Pids, ready_queue', waiting_queue', ready_queue, waiting_queue, S)
        /\ state' = [u \in Tasks |-> IF u \in S THEN "READY" ELSE state[u]]
  <2>. DEFINE S == WaitingFor(waiting_queue, "TIMEOUT") \cap {pid}
  <2>1. S \subseteq Range(waiting_queue)
    BY DEF WaitingFor
  <2>2. /\ state' = [u \in Tasks |-> IF u \in S THEN "READY" ELSE state[u]]
        /\ ready_queue' = ready_queue \o Keep(waiting_queue, S)
        /\ waiting_queue' = Keep(waiting_queue, Range(waiting_queue) \ S)
    BY DEF TimerSleep, fire_timeout, FireCond
  <2>. HIDE DEF S
  <2>3. Movable(Pids, ready_queue, waiting_queue, S)
    BY <1>0, <2>1 DEF Movable, TypeOK, QueueInv
  <2>4. Moved(Pids, ready_queue', waiting_queue', ready_queue, waiting_queue, S)
    BY <2>2, <2>3, MoveProperties
  <2>5. S \in SUBSET Pids
    BY <1>0, <2>1 DEF QueueInv
  <2>. QED BY <2>2, <2>4, <2>5 DEF S
<1>b. \A u \in S : u \in Pids /\ state[u] = "WAITING"
  BY <1>0, <1>a DEF WaitingFor, QueueInv
<1>c. /\ trap = "session" \/ (trap = "none" /\ sie[current])
      /\ trap' = "session"
      /\ timeouts' = timeouts \ {pid}
      /\ UNCHANGED <<current, wait_event, killed_queue, task_table, freed,
                     next_pid, sie, pc, node, next, need_reschedule, quantum,
         rx>>
  BY DEF TimerSleep, InterruptTask, Interruptible
<1>d. current # BootPid /\ ~ (current = CliPid /\ ~ sie[CliPid])
  BY <1>0, <1>c DEF BootInv, CliInv
<1>1. TypeOK'
  BY <1>0, <1>a, <1>b, <1>c, <1>d
     DEF TypeOK, Moved, States, IdleLabels, CliLabels
<1>2. QueueInv' /\ NoneStranded
  <2>1. \A u \in Tasks : state'[u] = IF u \in S THEN "READY" ELSE state[u]
    BY <1>a
  <2>2. /\ Range(ready_queue') \subseteq {u \in Pids : state'[u] = "READY"}
        /\ NoneStranded
    BY <1>0, <1>a, <1>b, <2>1 DEF QueueInv, Moved, Stranded, NoneStranded
  <2>3. Range(waiting_queue') = {u \in Pids : state'[u] = "WAITING"}
    BY <1>0, <1>a, <1>b, <2>1 DEF QueueInv, Moved
  <2>4. Range(killed_queue') =
          {u \in Pids : state'[u] = "KILLED"} \ (freed' \cup {node'})
    BY <1>0, <1>b, <1>c, <2>1 DEF QueueInv
  <2>5. \A u \in Pids : state'[u] = "RUNNING" => state[u] = "RUNNING"
    BY <2>1
  <2>. QED BY <1>0, <1>a, <1>c, <2>2, <2>3, <2>4, <2>5
              DEF QueueInv, Moved, Stranded
<1>3. BootInv'
  BY <1>0, <1>a, <1>b, <1>c, <1>d DEF TypeOK, BootInv
<1>4. SwitchInv'
  BY <1>0, <1>a, <1>b, <1>c, <1>d DEF TypeOK, SwitchInv
<1>5. CurrentInv'
  <2>1. \A u \in Stranded : u \in Stranded'
    BY <1>0, <1>a, <1>b DEF TypeOK, Stranded, Moved
  <2>. QED BY <1>0, <1>a, <1>b, <1>c, <1>d, <2>1 DEF TypeOK, CurrentInv
<1>6. IdleInv'
  BY <1>0, <1>a, <1>b, <1>c, <1>d DEF TypeOK, IdleInv, IdleLabels, CliLabels
<1>7. TableInv'
  BY <1>0, <1>a, <1>b, <1>c, <1>d DEF TypeOK, TableInv
<1>8. CliInv'
  BY <1>0, <1>a, <1>b, <1>c, <1>d DEF TypeOK, CliInv, IdleLabels, CliLabels
<1>9. ExecWaitSound'
  BY <1>0, <1>a, <1>b, <1>c, <1>d DEF TypeOK, ExecWaitSound
<1>10. NoMissedInput'
  BY <1>0, <1>a, <1>b, <1>c, <1>d DEF TypeOK, NoMissedInput, Moved, WaitingFor
<1>. QED BY <1>1, <1>2, <1>3, <1>4, <1>5, <1>6, <1>7, <1>8, <1>9,
         <1>10 DEF SchedInv

\* Input arrives.
LEMMA UartReceiveKeeps ==
  ASSUME SchedInv, UartReceive
  PROVE  SchedInv' /\ NoneStranded
<1>. USE Sorts DEF BootPid, IdlePid, CliPid, KThreads
<1>0. TypeOK /\ QueueInv /\ BootInv /\ SwitchInv /\ CurrentInv /\
      IdleInv /\ TableInv /\ CliInv /\ ExecWaitSound /\ NoMissedInput
  BY DEF SchedInv
<1>a. PICK S \in SUBSET Pids :
        /\ S = WaitingFor(waiting_queue, "UART_READ")
        /\ Moved(Pids, ready_queue', waiting_queue', ready_queue, waiting_queue, S)
        /\ state' = [u \in Tasks |-> IF u \in S THEN "READY" ELSE state[u]]
  <2>. DEFINE S == WaitingFor(waiting_queue, "UART_READ")
  <2>1. S \subseteq Range(waiting_queue)
    BY DEF WaitingFor
  <2>2. /\ state' = [u \in Tasks |-> IF u \in S THEN "READY" ELSE state[u]]
        /\ ready_queue' = ready_queue \o Keep(waiting_queue, S)
        /\ waiting_queue' = Keep(waiting_queue, Range(waiting_queue) \ S)
    BY DEF UartReceive, cpu_scheduler_fire, FireCond
  <2>. HIDE DEF S
  <2>3. Movable(Pids, ready_queue, waiting_queue, S)
    BY <1>0, <2>1 DEF Movable, TypeOK, QueueInv
  <2>4. Moved(Pids, ready_queue', waiting_queue', ready_queue, waiting_queue, S)
    BY <2>2, <2>3, MoveProperties
  <2>5. S \in SUBSET Pids
    BY <1>0, <2>1 DEF QueueInv
  <2>. QED BY <2>2, <2>4, <2>5 DEF S
<1>b. \A u \in S : u \in Pids /\ state[u] = "WAITING"
  BY <1>0, <1>a DEF WaitingFor, QueueInv
<1>c. /\ trap = "session" \/ (trap = "none" /\ sie[current])
      /\ trap' = "session"
      /\ rx < RxMax /\ rx' = rx + 1
      /\ UNCHANGED <<current, wait_event, killed_queue, task_table, freed,
                     next_pid, sie, pc, node, next, need_reschedule, quantum,
                     timeouts>>
  BY DEF UartReceive, InterruptTask, Interruptible
<1>d. current # BootPid /\ ~ (current = CliPid /\ ~ sie[CliPid])
  BY <1>0, <1>c DEF BootInv, CliInv
<1>1. TypeOK'
  BY <1>0, <1>a, <1>b, <1>c, <1>d, RxMaxAssumption
     DEF TypeOK, Moved, States, IdleLabels, CliLabels
<1>2. QueueInv' /\ NoneStranded
  <2>1. \A u \in Tasks : state'[u] = IF u \in S THEN "READY" ELSE state[u]
    BY <1>a
  <2>2. /\ Range(ready_queue') \subseteq {u \in Pids : state'[u] = "READY"}
        /\ NoneStranded
    BY <1>0, <1>a, <1>b, <2>1 DEF QueueInv, Moved, Stranded, NoneStranded
  <2>3. Range(waiting_queue') = {u \in Pids : state'[u] = "WAITING"}
    BY <1>0, <1>a, <1>b, <2>1 DEF QueueInv, Moved
  <2>4. Range(killed_queue') =
          {u \in Pids : state'[u] = "KILLED"} \ (freed' \cup {node'})
    BY <1>0, <1>b, <1>c, <2>1 DEF QueueInv
  <2>5. \A u \in Pids : state'[u] = "RUNNING" => state[u] = "RUNNING"
    BY <2>1
  <2>. QED BY <1>0, <1>a, <1>c, <2>2, <2>3, <2>4, <2>5 DEF QueueInv, Moved
<1>3. BootInv'
  BY <1>0, <1>a, <1>b, <1>c, <1>d DEF TypeOK, BootInv
<1>4. SwitchInv'
  BY <1>0, <1>a, <1>b, <1>c, <1>d DEF TypeOK, SwitchInv
<1>5. CurrentInv'
  <2>1. \A u \in Stranded : u \in Stranded'
    BY <1>0, <1>a, <1>b DEF TypeOK, Stranded, Moved
  <2>. QED BY <1>0, <1>a, <1>b, <1>c, <1>d, <2>1 DEF TypeOK, CurrentInv
<1>6. IdleInv'
  BY <1>0, <1>a, <1>b, <1>c, <1>d DEF TypeOK, IdleInv, IdleLabels, CliLabels
<1>7. TableInv'
  BY <1>0, <1>a, <1>b, <1>c, <1>d DEF TypeOK, TableInv
<1>8. CliInv'
  BY <1>0, <1>a, <1>b, <1>c, <1>d DEF TypeOK, CliInv, IdleLabels, CliLabels
<1>9. ExecWaitSound'
  BY <1>0, <1>a, <1>b, <1>c, <1>d DEF TypeOK, ExecWaitSound
<1>10. NoMissedInput'
  BY <1>0, <1>a, <1>b, <1>c, <1>d DEF TypeOK, NoMissedInput, Moved, WaitingFor
<1>. QED BY <1>1, <1>2, <1>3, <1>4, <1>5, <1>6, <1>7, <1>8, <1>9,
         <1>10 DEF SchedInv

\* Output drains.
LEMMA UartTransmitKeeps ==
  ASSUME SchedInv, UartTransmit
  PROVE  SchedInv' /\ NoneStranded
<1>. USE Sorts DEF BootPid, IdlePid, CliPid, KThreads
<1>0. TypeOK /\ QueueInv /\ BootInv /\ SwitchInv /\ CurrentInv /\
      IdleInv /\ TableInv /\ CliInv /\ ExecWaitSound /\ NoMissedInput
  BY DEF SchedInv
<1>a. PICK S \in SUBSET Pids :
        /\ S = WaitingFor(waiting_queue, "UART_WRITE")
        /\ Moved(Pids, ready_queue', waiting_queue', ready_queue, waiting_queue, S)
        /\ state' = [u \in Tasks |-> IF u \in S THEN "READY" ELSE state[u]]
  <2>. DEFINE S == WaitingFor(waiting_queue, "UART_WRITE")
  <2>1. S \subseteq Range(waiting_queue)
    BY DEF WaitingFor
  <2>2. /\ state' = [u \in Tasks |-> IF u \in S THEN "READY" ELSE state[u]]
        /\ ready_queue' = ready_queue \o Keep(waiting_queue, S)
        /\ waiting_queue' = Keep(waiting_queue, Range(waiting_queue) \ S)
    BY DEF UartTransmit, cpu_scheduler_fire, FireCond
  <2>. HIDE DEF S
  <2>3. Movable(Pids, ready_queue, waiting_queue, S)
    BY <1>0, <2>1 DEF Movable, TypeOK, QueueInv
  <2>4. Moved(Pids, ready_queue', waiting_queue', ready_queue, waiting_queue, S)
    BY <2>2, <2>3, MoveProperties
  <2>5. S \in SUBSET Pids
    BY <1>0, <2>1 DEF QueueInv
  <2>. QED BY <2>2, <2>4, <2>5 DEF S
<1>b. \A u \in S : u \in Pids /\ state[u] = "WAITING"
  BY <1>0, <1>a DEF WaitingFor, QueueInv
<1>c. /\ trap = "session" \/ (trap = "none" /\ sie[current])
      /\ trap' = "session"
      /\ UNCHANGED <<current, wait_event, killed_queue, task_table, freed,
                     next_pid, sie, pc, node, next, need_reschedule, quantum,
                     timeouts, rx>>
  BY DEF UartTransmit, InterruptTask, Interruptible
<1>d. current # BootPid /\ ~ (current = CliPid /\ ~ sie[CliPid])
  BY <1>0, <1>c DEF BootInv, CliInv
<1>1. TypeOK'
  BY <1>0, <1>a, <1>b, <1>c, <1>d
     DEF TypeOK, Moved, States, IdleLabels, CliLabels
<1>2. QueueInv' /\ NoneStranded
  <2>1. \A u \in Tasks : state'[u] = IF u \in S THEN "READY" ELSE state[u]
    BY <1>a
  <2>2. /\ Range(ready_queue') \subseteq {u \in Pids : state'[u] = "READY"}
        /\ NoneStranded
    <3>1. \A u \in Range(ready_queue') : u \in Range(ready_queue) \/ u \in S
      BY <1>a DEF Moved
    <3>2. \A u \in Range(ready_queue) \cup S : u \in Range(ready_queue')
      BY <1>a DEF Moved
    <3>3. Range(ready_queue) \subseteq {u \in Pids : state[u] = "READY"}
      BY <1>0 DEF QueueInv
    <3>. QED BY <1>b, <2>1, <3>1, <3>2, <3>3 DEF Stranded, NoneStranded
  <2>3. Range(waiting_queue') = {u \in Pids : state'[u] = "WAITING"}
    BY <1>0, <1>a, <1>b, <2>1 DEF QueueInv, Moved
  <2>4. Range(killed_queue') =
          {u \in Pids : state'[u] = "KILLED"} \ (freed' \cup {node'})
    BY <1>0, <1>b, <1>c, <2>1 DEF QueueInv
  <2>5. \A u \in Pids : state'[u] = "RUNNING" => state[u] = "RUNNING"
    BY <2>1
  <2>. QED BY <1>0, <1>a, <1>c, <2>2, <2>3, <2>4, <2>5
              DEF QueueInv, Moved, Stranded
<1>3. BootInv'
  BY <1>0, <1>a, <1>b, <1>c, <1>d DEF TypeOK, BootInv
<1>4. SwitchInv'
  BY <1>0, <1>a, <1>b, <1>c, <1>d DEF TypeOK, SwitchInv
<1>5. CurrentInv'
  <2>1. \A u \in Stranded : u \in Stranded'
    BY <1>0, <1>a, <1>b DEF TypeOK, Stranded, Moved
  <2>. QED BY <1>0, <1>a, <1>b, <1>c, <1>d, <2>1 DEF TypeOK, CurrentInv
<1>6. IdleInv'
  BY <1>0, <1>a, <1>b, <1>c, <1>d DEF TypeOK, IdleInv, IdleLabels, CliLabels
<1>7. TableInv'
  BY <1>0, <1>a, <1>b, <1>c, <1>d DEF TypeOK, TableInv
<1>8. CliInv'
  BY <1>0, <1>a, <1>b, <1>c, <1>d DEF TypeOK, CliInv, IdleLabels, CliLabels
<1>9. ExecWaitSound'
  BY <1>0, <1>a, <1>b, <1>c, <1>d DEF TypeOK, ExecWaitSound
<1>10. NoMissedInput'
  BY <1>0, <1>a, <1>b, <1>c, <1>d DEF TypeOK, NoMissedInput, Moved, WaitingFor
<1>. QED BY <1>1, <1>2, <1>3, <1>4, <1>5, <1>6, <1>7, <1>8, <1>9,
         <1>10 DEF SchedInv

\* The time slice ends.
LEMMA TimerQuantumKeeps ==
  ASSUME SchedInv, TimerQuantum
  PROVE  SchedInv' /\ NoneStranded
<1>. USE Sorts DEF BootPid, IdlePid, CliPid, KThreads
<1>0. TypeOK /\ QueueInv /\ BootInv /\ SwitchInv /\ CurrentInv /\
      IdleInv /\ TableInv /\ CliInv /\ ExecWaitSound /\ NoMissedInput
  BY DEF SchedInv
<1>a. trap = "session" \/ (trap = "none" /\ sie[current])
  BY DEF TimerQuantum, InterruptTask, Interruptible
<1>b. current # BootPid /\ ~ (current = CliPid /\ ~ sie[CliPid])
  BY <1>0, <1>a DEF BootInv, CliInv
<1>1. TypeOK'
  BY <1>0, <1>a, <1>b
     DEF TypeOK, TimerQuantum, InterruptTask, Interruptible, queues, States, IdleLabels,
         CliLabels
<1>2. QueueInv' /\ NoneStranded
  BY <1>0, <1>a, <1>b
     DEF TypeOK, QueueInv, TimerQuantum, InterruptTask, Interruptible, queues, Stranded,
         NoneStranded
<1>3. BootInv'
  BY <1>0, <1>a, <1>b DEF TypeOK, BootInv, TimerQuantum, InterruptTask, Interruptible, queues
<1>4. SwitchInv'
  BY <1>0, <1>a, <1>b
     DEF TypeOK, SwitchInv, TimerQuantum, InterruptTask, Interruptible, queues
<1>5. CurrentInv'
  BY <1>0, <1>a, <1>b
     DEF TypeOK, CurrentInv, TimerQuantum, InterruptTask, Interruptible, queues
<1>6. IdleInv'
  BY <1>0, <1>a, <1>b
     DEF TypeOK, IdleInv, TimerQuantum, InterruptTask, Interruptible, queues, IdleLabels,
         CliLabels
<1>7. TableInv'
  BY <1>0, <1>a, <1>b DEF TypeOK, TableInv, TimerQuantum, InterruptTask, Interruptible, queues
<1>8. CliInv'
  BY <1>0, <1>a, <1>b
     DEF TypeOK, CliInv, TimerQuantum, InterruptTask, Interruptible, queues, IdleLabels,
         CliLabels
<1>9. ExecWaitSound'
  BY <1>0, <1>a, <1>b
     DEF TypeOK, ExecWaitSound, TimerQuantum, InterruptTask, Interruptible, queues
<1>10. NoMissedInput'
  BY <1>0, <1>a, <1>b
     DEF TypeOK, NoMissedInput, TimerQuantum, InterruptTask, Interruptible, queues
<1>. QED BY <1>1, <1>2, <1>3, <1>4, <1>5, <1>6, <1>7, <1>8, <1>9,
         <1>10 DEF SchedInv

\* A message of settimeout is printed.
LEMMA TimerMessageKeeps ==
  ASSUME SchedInv, TimerMessage
  PROVE  SchedInv' /\ NoneStranded
<1>. USE Sorts DEF BootPid, IdlePid, CliPid, KThreads
<1>0. TypeOK /\ QueueInv /\ BootInv /\ SwitchInv /\ CurrentInv /\
      IdleInv /\ TableInv /\ CliInv /\ ExecWaitSound /\ NoMissedInput
  BY DEF SchedInv
<1>a. trap = "session" \/ (trap = "none" /\ sie[current])
  BY DEF TimerMessage, InterruptTask, Interruptible
<1>b. current # BootPid /\ ~ (current = CliPid /\ ~ sie[CliPid])
  BY <1>0, <1>a DEF BootInv, CliInv
<1>1. TypeOK'
  BY <1>0, <1>a, <1>b
     DEF TypeOK, TimerMessage, InterruptTask, Interruptible, queues, States, IdleLabels,
         CliLabels
<1>2. QueueInv' /\ NoneStranded
  BY <1>0, <1>a, <1>b
     DEF TypeOK, QueueInv, TimerMessage, InterruptTask, Interruptible, queues, Stranded,
         NoneStranded
<1>3. BootInv'
  BY <1>0, <1>a, <1>b DEF TypeOK, BootInv, TimerMessage, InterruptTask, Interruptible, queues
<1>4. SwitchInv'
  BY <1>0, <1>a, <1>b
     DEF TypeOK, SwitchInv, TimerMessage, InterruptTask, Interruptible, queues
<1>5. CurrentInv'
  BY <1>0, <1>a, <1>b
     DEF TypeOK, CurrentInv, TimerMessage, InterruptTask, Interruptible, queues,
         Stranded
<1>6. IdleInv'
  BY <1>0, <1>a, <1>b
     DEF TypeOK, IdleInv, TimerMessage, InterruptTask, Interruptible, queues, IdleLabels,
         CliLabels
<1>7. TableInv'
  BY <1>0, <1>a, <1>b DEF TypeOK, TableInv, TimerMessage, InterruptTask, Interruptible, queues
<1>8. CliInv'
  BY <1>0, <1>a, <1>b
     DEF TypeOK, CliInv, TimerMessage, InterruptTask, Interruptible, queues, IdleLabels,
         CliLabels
<1>9. ExecWaitSound'
  BY <1>0, <1>a, <1>b
     DEF TypeOK, ExecWaitSound, TimerMessage, InterruptTask, Interruptible, queues
<1>10. NoMissedInput'
  BY <1>0, <1>a, <1>b
     DEF TypeOK, NoMissedInput, TimerMessage, InterruptTask, Interruptible, queues
<1>. QED BY <1>1, <1>2, <1>3, <1>4, <1>5, <1>6, <1>7, <1>8, <1>9,
         <1>10 DEF SchedInv

\* The command line reads a character, or finds none.
LEMMA CliGetKeeps ==
  ASSUME SchedInv, CliGet
  PROVE  SchedInv' /\ NoneStranded
<1>. USE Sorts DEF BootPid, IdlePid, CliPid, KThreads
<1>0. TypeOK /\ QueueInv /\ BootInv /\ SwitchInv /\ CurrentInv /\
      IdleInv /\ TableInv /\ CliInv /\ ExecWaitSound /\ NoMissedInput
  BY DEF SchedInv
<1>a. /\ current = CliPid /\ pc[CliPid] = "get" /\ trap = "none"
      /\ UNCHANGED <<current, state, wait_event, ready_queue, waiting_queue,
                     killed_queue, task_table, freed, next_pid, node, next,
                     trap, need_reschedule, quantum, timeouts>>
  BY DEF CliGet, At, InThread, queues
<1>b. \/ /\ rx > 0 /\ rx' = rx - 1
         /\ sie' = [sie EXCEPT ![CliPid] = FALSE]
         /\ pc' = [pc EXCEPT ![CliPid] = "command"]
      \/ /\ rx = 0 /\ UNCHANGED <<rx, sie>>
         /\ pc' = [pc EXCEPT ![CliPid] = "wait_read"]
  BY DEF CliGet, Goto
<1>c. rx' \in 0..RxMax
  BY <1>0, <1>b, RxMaxAssumption DEF TypeOK
<1>d. \A u \in Range(waiting_queue) : u \in Pids /\ u # 1 /\ u # 2 /\ u < next_pid
  BY <1>0, <1>a DEF QueueInv, IdleInv, CurrentInv, TableInv
<1>1. TypeOK'
  <2>1. sie' \in [Tasks -> BOOLEAN]
    BY <1>0, <1>b DEF TypeOK
  <2>2. pc' \in [KThreads -> IdleLabels \cup CliLabels]
    BY <1>0, <1>b DEF TypeOK, CliLabels
  <2>. QED BY <1>0, <1>a, <1>c, <2>1, <2>2 DEF TypeOK
<1>2. QueueInv' /\ NoneStranded
  BY <1>0, <1>a, <1>b, <1>c, <1>d DEF TypeOK, QueueInv, Stranded, NoneStranded
<1>3. BootInv'
  BY <1>0, <1>a, <1>b, <1>c, <1>d DEF TypeOK, BootInv
<1>4. SwitchInv'
  BY <1>0, <1>a, <1>b, <1>c, <1>d DEF TypeOK, SwitchInv
<1>5. CurrentInv'
  BY <1>0, <1>a, <1>b, <1>c, <1>d DEF TypeOK, CurrentInv
<1>6. IdleInv'
  BY <1>0, <1>a, <1>b, <1>c, <1>d DEF TypeOK, IdleInv, IdleLabels, CliLabels
<1>7. TableInv'
  BY <1>0, <1>a, <1>b, <1>c, <1>d DEF TypeOK, TableInv
<1>8. CliInv'
  BY <1>0, <1>a, <1>b, <1>c, <1>d DEF TypeOK, CliInv, IdleLabels, CliLabels
<1>9. ExecWaitSound'
  BY <1>0, <1>a, <1>b, <1>c, <1>d DEF TypeOK, ExecWaitSound
<1>10. NoMissedInput'
  <2>1. CASE sie[CliPid]
    <3>1. next_pid = 3
      BY <1>0, <2>1 DEF CliInv
    <3>2. \A u \in Range(waiting_queue) : FALSE
      BY <1>d, <3>1, FirstPids
    <3>. QED BY <1>a, <3>2 DEF NoMissedInput
  <2>2. CASE ~ sie[CliPid]
    <3>1. rx = 0 => rx' = 0
      BY <1>b
    <3>2. rx # 0 => \A u \in Range(waiting_queue) : wait_event[u].id # "UART_READ"
      BY <1>0, <2>2 DEF NoMissedInput
    <3>. QED BY <1>a, <3>1, <3>2 DEF NoMissedInput
  <2>. QED BY <2>1, <2>2
<1>. QED BY <1>1, <1>2, <1>3, <1>4, <1>5, <1>6, <1>7, <1>8, <1>9,
         <1>10 DEF SchedInv

\* The command line goes on after a character.
LEMMA CliCommandKeeps ==
  ASSUME SchedInv, CliCommand
  PROVE  SchedInv' /\ NoneStranded
<1>. USE Sorts DEF BootPid, IdlePid, CliPid, KThreads
<1>0. TypeOK /\ QueueInv /\ BootInv /\ SwitchInv /\ CurrentInv /\
      IdleInv /\ TableInv /\ CliInv /\ ExecWaitSound /\ NoMissedInput
  BY DEF SchedInv
<1>1. TypeOK'
  BY <1>0
     DEF TypeOK, CliCommand, At, InThread, Goto, queues, States, IdleLabels,
         CliLabels
<1>2. QueueInv' /\ NoneStranded
  BY <1>0
     DEF TypeOK, QueueInv, CliCommand, At, InThread, Goto, queues, Stranded,
         NoneStranded
<1>3. BootInv'
  BY <1>0 DEF TypeOK, BootInv, CliCommand, At, InThread, Goto, queues
<1>4. SwitchInv'
  BY <1>0 DEF TypeOK, SwitchInv, CliCommand, At, InThread, Goto, queues
<1>5. CurrentInv'
  BY <1>0 DEF TypeOK, CurrentInv, CliCommand, At, InThread, Goto, queues
<1>6. IdleInv'
  BY <1>0
     DEF TypeOK, IdleInv, CliCommand, At, InThread, Goto, queues, IdleLabels,
         CliLabels
<1>7. TableInv'
  BY <1>0 DEF TypeOK, TableInv, CliCommand, At, InThread, Goto, queues
<1>8. CliInv'
  BY <1>0
     DEF TypeOK, CliInv, CliCommand, At, InThread, Goto, queues, IdleLabels,
         CliLabels
<1>9. ExecWaitSound'
  BY <1>0 DEF TypeOK, ExecWaitSound, CliCommand, At, InThread, Goto, queues
<1>10. NoMissedInput'
  BY <1>0 DEF TypeOK, NoMissedInput, CliCommand, At, InThread, Goto, queues
<1>. QED BY <1>1, <1>2, <1>3, <1>4, <1>5, <1>6, <1>7, <1>8, <1>9,
         <1>10 DEF SchedInv

\* The command line queues a timeout for a message.
LEMMA SetTimeoutKeeps ==
  ASSUME SchedInv, command_settimeout
  PROVE  SchedInv' /\ NoneStranded
<1>. USE Sorts DEF BootPid, IdlePid, CliPid, KThreads
<1>0. TypeOK /\ QueueInv /\ BootInv /\ SwitchInv /\ CurrentInv /\
      IdleInv /\ TableInv /\ CliInv /\ ExecWaitSound /\ NoMissedInput
  BY DEF SchedInv
<1>1. TypeOK'
  BY <1>0
     DEF TypeOK, command_settimeout, At, InThread, Goto, queues, States, IdleLabels,
         CliLabels
<1>2. QueueInv' /\ NoneStranded
  BY <1>0
     DEF TypeOK, QueueInv, command_settimeout, At, InThread, Goto, queues, Stranded,
         NoneStranded
<1>3. BootInv'
  BY <1>0 DEF TypeOK, BootInv, command_settimeout, At, InThread, Goto, queues
<1>4. SwitchInv'
  BY <1>0 DEF TypeOK, SwitchInv, command_settimeout, At, InThread, Goto, queues
<1>5. CurrentInv'
  BY <1>0 DEF TypeOK, CurrentInv, command_settimeout, At, InThread, Goto, queues
<1>6. IdleInv'
  BY <1>0
     DEF TypeOK, IdleInv, command_settimeout, At, InThread, Goto, queues, IdleLabels,
         CliLabels
<1>7. TableInv'
  BY <1>0 DEF TypeOK, TableInv, command_settimeout, At, InThread, Goto, queues
<1>8. CliInv'
  BY <1>0
     DEF TypeOK, CliInv, command_settimeout, At, InThread, Goto, queues, IdleLabels,
         CliLabels
<1>9. ExecWaitSound'
  BY <1>0 DEF TypeOK, ExecWaitSound, command_settimeout, At, InThread, Goto, queues
<1>10. NoMissedInput'
  BY <1>0 DEF TypeOK, NoMissedInput, command_settimeout, At, InThread, Goto, queues
<1>. QED BY <1>1, <1>2, <1>3, <1>4, <1>5, <1>6, <1>7, <1>8, <1>9,
         <1>10 DEF SchedInv

\* The command line starts a process.
LEMMA CliExecKeeps ==
  ASSUME SchedInv, CliExec
  PROVE  SchedInv' /\ NoneStranded
<1>. USE Sorts DEF BootPid, IdlePid, CliPid, KThreads
<1>0. TypeOK /\ QueueInv /\ BootInv /\ SwitchInv /\ CurrentInv /\
      IdleInv /\ TableInv /\ CliInv /\ ExecWaitSound /\ NoMissedInput
  BY DEF SchedInv
<1>a. /\ next_pid \in Pids /\ next_pid \in Processes
      /\ next_pid <= MaxPid /\ next_pid > 2
      /\ state[next_pid] = "NONE"
      /\ next_pid \notin Range(ready_queue)
  <2>1. next_pid \in Pids /\ next_pid <= MaxPid
    BY <1>0 DEF TypeOK, CliExec, Pids
  <2>2. state[next_pid] = "NONE" /\ next_pid > 2
    BY <1>0, <2>1 DEF TableInv
  <2>3. next_pid \in Processes
    BY <2>1, <2>2 DEF Processes
  <2>4. Range(ready_queue) \subseteq {t \in Pids : state[t] = "READY"}
    BY <1>0 DEF QueueInv
  <2>. QED BY <2>1, <2>2, <2>3, <2>4
<1>b. /\ ready_queue' \in Seq(Pids)
      /\ IsInjective(ready_queue')
      /\ Range(ready_queue') = Range(ready_queue) \cup {next_pid}
  <2>1. ready_queue \in Seq(Pids) /\ IsInjective(ready_queue)
    BY <1>0 DEF TypeOK, QueueInv
  <2>2. ready_queue' = linked_list_insert(ready_queue, next_pid)
    BY DEF CliExec, AddTask
  <2>3. next_pid \in Pids /\ next_pid \notin Range(ready_queue)
    BY <1>a
  <2>. QED BY <2>1, <2>2, <2>3, InsertProperties
<1>c. /\ next_pid' = next_pid + 1
      /\ next_pid' \in 1..(MaxPid + 1)
      /\ state' = [state EXCEPT ![next_pid] = "READY"]
      /\ task_table' = task_table \cup {next_pid}
  <2>1. next_pid' = next_pid + 1
    BY DEF CliExec, AddTask
  <2>2. next_pid' \in 1..(MaxPid + 1)
    BY <1>a, <2>1, MaxPidAssumption
  <2>. QED BY <2>1, <2>2 DEF CliExec, AddTask
<1>1. TypeOK'
  BY <1>0, <1>a, <1>b, <1>c
     DEF TypeOK, CliExec, At, InThread, Goto, queues, States, IdleLabels,
         CliLabels
<1>2. QueueInv' /\ NoneStranded
  <2>1. \A u \in Tasks : state'[u] = IF u = next_pid THEN "READY" ELSE state[u]
    BY <1>0, <1>a, <1>c DEF TypeOK
  <2>2. UNCHANGED <<current, waiting_queue, killed_queue, freed, node, next>>
    BY DEF CliExec
  <2>3. /\ Range(ready_queue') \subseteq {u \in Pids : state'[u] = "READY"}
        /\ NoneStranded
    BY <1>0, <1>a, <1>b, <2>1 DEF QueueInv, Stranded, NoneStranded
  <2>4. Range(waiting_queue') = {u \in Pids : state'[u] = "WAITING"}
    BY <1>0, <1>a, <2>1, <2>2 DEF QueueInv
  <2>5. Range(killed_queue') =
          {u \in Pids : state'[u] = "KILLED"} \ (freed' \cup {node'})
    BY <1>0, <1>a, <2>1, <2>2 DEF QueueInv
  <2>. QED BY <1>0, <1>b, <2>1, <2>2, <2>3, <2>4, <2>5 DEF QueueInv, Stranded
<1>3. BootInv'
  BY <1>0, <1>a, <1>b, <1>c
     DEF TypeOK, BootInv, CliExec, At, InThread, Goto, queues
<1>4. SwitchInv'
  BY <1>0, <1>a, <1>b, <1>c
     DEF TypeOK, SwitchInv, CliExec, At, InThread, Goto, queues
<1>5. CurrentInv'
  BY <1>0, <1>a, <1>b, <1>c
     DEF TypeOK, CurrentInv, CliExec, At, InThread, Goto, queues
<1>6. IdleInv'
  BY <1>0, <1>a, <1>b, <1>c
     DEF TypeOK, IdleInv, CliExec, At, InThread, Goto, queues, IdleLabels,
         CliLabels
<1>7. TableInv'
  <2>1. \A u \in Pids : u < next_pid' <=> u < next_pid \/ u = next_pid
    BY <1>a, <1>c
  <2>2. \A u \in Tasks : state'[u] = IF u = next_pid THEN "READY" ELSE state[u]
    BY <1>0, <1>a, <1>c DEF TypeOK
  <2>3. \A u \in Pids : u < next_pid' <=> state'[u] # "NONE"
    BY <1>0, <2>1, <2>2 DEF TableInv
  <2>4. UNCHANGED <<current, freed, node>> /\ pc'[IdlePid] = pc[IdlePid]
    BY <1>0 DEF TypeOK, CliExec, Goto
  <2>5. task_table' = {u \in Pids : state'[u] # "NONE"}
           \ (freed' \cup IF pc'[IdlePid] = "free" THEN {node'} ELSE {})
    <3>1. next_pid \notin freed /\ next_pid # node
      BY <1>0, <1>a DEF TableInv
    <3>2. {u \in Pids : state'[u] # "NONE"} =
            {u \in Pids : state[u] # "NONE"} \cup {next_pid}
      BY <1>a, <2>2
    <3>. QED BY <1>0, <1>c, <2>4, <3>1, <3>2 DEF TableInv
  <2>6. next_pid' > CliPid
    BY <1>a, <1>c
  <2>7. \A u \in freed' : state'[u] = "KILLED"
    BY <1>0, <1>a, <2>2, <2>4 DEF TableInv, TypeOK
  <2>8. node' # 0 => state'[node'] = "KILLED" /\ node' \notin freed'
    BY <1>0, <1>a, <2>2, <2>4 DEF TableInv, TypeOK
  <2>9. /\ node' # 0 <=> pc'[IdlePid] \in {"unlist", "free"}
        /\ current' \notin freed'
        /\ node' # 0 => current' # node'
    BY <1>0, <2>4 DEF TableInv
  <2>10. current' < next_pid'
    <3>1. current' = current /\ next_pid' = next_pid + 1
      BY DEF CliExec, AddTask
    <3>. QED BY <1>0, <1>a, <3>1, Sorts DEF TableInv, TypeOK, Tasks
  <2>. QED BY <2>3, <2>5, <2>6, <2>7, <2>8, <2>9, <2>10 DEF TableInv
<1>8. CliInv'
  BY <1>0, <1>a, <1>b, <1>c
     DEF TypeOK, CliInv, CliExec, At, InThread, Goto, queues, IdleLabels,
         CliLabels
<1>9. ExecWaitSound'
  BY <1>0, <1>a, <1>b, <1>c
     DEF TypeOK, ExecWaitSound, CliExec, At, InThread, Goto, queues
<1>10. NoMissedInput'
  BY <1>0, <1>a, <1>b, <1>c
     DEF TypeOK, NoMissedInput, CliExec, At, InThread, Goto, queues
<1>. QED BY <1>1, <1>2, <1>3, <1>4, <1>5, <1>6, <1>7, <1>8, <1>9,
         <1>10 DEF SchedInv

\* The command line begins to wait, for what it has reason to wait for.
LEMMA CliWaitKeeps ==
  ASSUME NEW id \in Events, NEW arg \in Tasks,
         \/ At(CliPid, "wait_read") /\ id = "UART_READ"
         \/ At(CliPid, "wait_write") /\ id = "UART_WRITE"
         \/ At(CliPid, "wait_kill") /\ id = "PROCESS_KILL" /\ arg = next_pid - 1,
         SchedInv, EnterWait(id, arg), CliWait
  PROVE  SchedInv' /\ NoneStranded
<1>. USE Sorts DEF BootPid, IdlePid, CliPid, KThreads
<1>0. TypeOK /\ QueueInv /\ BootInv /\ SwitchInv /\ CurrentInv /\
      IdleInv /\ TableInv /\ CliInv /\ ExecWaitSound /\ NoMissedInput
  BY DEF SchedInv
<1>a. /\ current = CliPid /\ trap = "none"
      /\ \/ pc[CliPid] = "wait_read" /\ id = "UART_READ"
         \/ pc[CliPid] = "wait_write" /\ id = "UART_WRITE"
         \/ pc[CliPid] = "wait_kill" /\ id = "PROCESS_KILL" /\ arg = next_pid - 1
      /\ pc' = [pc EXCEPT ![CliPid] = "next"]
      /\ UNCHANGED <<current, ready_queue, killed_queue, task_table, freed,
                     next_pid, sie, node, next, trap, need_reschedule,
                     quantum, timeouts, rx>>
  BY DEF CliWait, At, InThread, Goto
<1>b. state[CliPid] = "RUNNING" /\ next = 0 /\ CliPid \notin Range(waiting_queue)
  BY <1>0, <1>a DEF CurrentInv, SwitchInv, QueueInv
<1>c. /\ state' = [state EXCEPT ![CliPid] = "WAITING"]
      /\ wait_event' = [wait_event EXCEPT ![CliPid] = [id |-> id, arg |-> arg]]
  BY <1>a DEF EnterWait
<1>d. /\ waiting_queue' \in Seq(Pids)
      /\ IsInjective(waiting_queue')
      /\ Range(waiting_queue') = Range(waiting_queue) \cup {CliPid}
  <2>1. waiting_queue \in Seq(Pids) /\ IsInjective(waiting_queue)
    BY <1>0 DEF TypeOK, QueueInv
  <2>2. waiting_queue' = linked_list_insert(waiting_queue, CliPid)
    BY <1>a DEF EnterWait
  <2>3. CliPid \in Pids
    OBVIOUS
  <2>. HIDE DEF CliPid
  <2>. QED BY <1>b, <2>1, <2>2, <2>3, InsertProperties
<1>1. TypeOK'
  BY <1>0, <1>a, <1>b, <1>c, <1>d DEF TypeOK, States, IdleLabels, CliLabels
<1>2. QueueInv' /\ NoneStranded
  <2>0. /\ state[CliPid] = "RUNNING" /\ CliPid \in Pids
        /\ UNCHANGED <<ready_queue, killed_queue, current, freed, node, next>>
    BY <1>a, <1>b, <1>a
  <2>1. \A u \in Tasks : state'[u] = IF u = CliPid THEN "WAITING" ELSE state[u]
    BY <1>0, <1>c DEF TypeOK
  <2>a. Range(waiting_queue') = Range(waiting_queue) \cup {CliPid}
    BY <1>d
  <2>. HIDE DEF CliPid
  <2>2. /\ Range(ready_queue') \subseteq {u \in Pids : state'[u] = "READY"}
        /\ NoneStranded
    BY <1>0, <2>0, <2>1 DEF QueueInv, Stranded, NoneStranded
  <2>3. Range(waiting_queue') = {u \in Pids : state'[u] = "WAITING"}
    <3>1. Range(waiting_queue) = {u \in Pids : state[u] = "WAITING"}
      BY <1>0 DEF QueueInv
    <3>2. \A u \in Pids : state'[u] = IF u = CliPid THEN "WAITING" ELSE state[u]
      BY <2>1
    <3>3. {u \in Pids : state'[u] = "WAITING"} =
            {u \in Pids : state[u] = "WAITING"} \cup {CliPid}
      BY <2>0, <3>2
    <3>. QED BY <2>a, <3>1, <3>3
  <2>4. Range(killed_queue') =
          {u \in Pids : state'[u] = "KILLED"} \ (freed' \cup {node'})
    BY <1>0, <2>0, <2>1 DEF QueueInv
  <2>5. \A u \in Pids : state'[u] = "RUNNING" => state[u] = "RUNNING"
    BY <2>1
  <2>6. Stranded' \subseteq Processes
    BY <1>0, <2>2 DEF QueueInv, NoneStranded
  <2>. QED BY <1>0, <2>0, <1>d, <2>2, <2>3, <2>4, <2>5, <2>6 DEF QueueInv
<1>3. BootInv'
  BY <1>0, <1>a, <1>b, <1>c, <1>d DEF TypeOK, BootInv
<1>4. SwitchInv'
  BY <1>0, <1>a, <1>b, <1>c, <1>d DEF TypeOK, SwitchInv
<1>5. CurrentInv'
  BY <1>0, <1>a, <1>b, <1>c, <1>d DEF TypeOK, CurrentInv
<1>6. IdleInv'
  BY <1>0, <1>a, <1>b, <1>c, <1>d DEF TypeOK, IdleInv, IdleLabels, CliLabels
<1>7. TableInv'
  BY <1>0, <1>a, <1>b, <1>c, <1>d DEF TypeOK, TableInv
<1>8. CliInv'
  BY <1>0, <1>a, <1>b, <1>c, <1>d DEF TypeOK, CliInv, IdleLabels, CliLabels
<1>9. ExecWaitSound'
  <2>1. state'[CliPid] = "WAITING" /\ wait_event'[CliPid] = [id |-> id, arg |-> arg]
    BY <1>0, <1>c DEF TypeOK
  <2>2. CASE id = "PROCESS_KILL"
    <3>1. arg \in Processes /\ state[arg] = "READY"
      BY <1>0, <1>a, <2>2 DEF CliInv
    <3>2. state'[arg] = "READY"
      BY <1>0, <1>c, <3>1 DEF TypeOK
    <3>. QED BY <2>1, <3>2 DEF ExecWaitSound
  <2>3. CASE id # "PROCESS_KILL"
    BY <2>1, <2>3 DEF ExecWaitSound
  <2>. QED BY <2>2, <2>3
<1>10. NoMissedInput'
  <2>1. \A u \in Range(waiting_queue) : wait_event'[u] = wait_event[u]
    BY <1>0, <1>b, <1>c DEF TypeOK, QueueInv
  <2>2. wait_event'[CliPid].id = id
    BY <1>0, <1>c DEF TypeOK
  <2>3. ~ sie[CliPid] /\ id = "UART_READ" => rx = 0
    BY <1>0, <1>a DEF CliInv
  <2>. QED BY <1>0, <1>a, <1>d, <2>1, <2>2, <2>3 DEF NoMissedInput
<1>. QED BY <1>1, <1>2, <1>3, <1>4, <1>5, <1>6, <1>7, <1>8, <1>9,
         <1>10 DEF SchedInv

\* A process forks.
LEMMA SysForkKeeps ==
  ASSUME SchedInv, SysFork
  PROVE  SchedInv' /\ NoneStranded
<1>. USE Sorts DEF BootPid, IdlePid, CliPid, KThreads
<1>0. TypeOK /\ QueueInv /\ BootInv /\ SwitchInv /\ CurrentInv /\
      IdleInv /\ TableInv /\ CliInv /\ ExecWaitSound /\ NoMissedInput
  BY DEF SchedInv
<1>a. /\ next_pid \in Pids /\ next_pid \in Processes
      /\ next_pid <= MaxPid /\ next_pid > 2
      /\ state[next_pid] = "NONE"
      /\ next_pid \notin Range(ready_queue)
  <2>1. next_pid \in Pids /\ next_pid <= MaxPid
    BY <1>0 DEF TypeOK, SysFork, Pids
  <2>2. state[next_pid] = "NONE" /\ next_pid > 2
    BY <1>0, <2>1 DEF TableInv
  <2>3. next_pid \in Processes
    BY <2>1, <2>2 DEF Processes
  <2>4. Range(ready_queue) \subseteq {t \in Pids : state[t] = "READY"}
    BY <1>0 DEF QueueInv
  <2>. QED BY <2>1, <2>2, <2>3, <2>4
<1>b. /\ ready_queue' \in Seq(Pids)
      /\ IsInjective(ready_queue')
      /\ Range(ready_queue') = Range(ready_queue) \cup {next_pid}
  <2>1. ready_queue \in Seq(Pids) /\ IsInjective(ready_queue)
    BY <1>0 DEF TypeOK, QueueInv
  <2>2. ready_queue' = linked_list_insert(ready_queue, next_pid)
    BY DEF SysFork, AddTask
  <2>3. next_pid \in Pids /\ next_pid \notin Range(ready_queue)
    BY <1>a
  <2>. QED BY <2>1, <2>2, <2>3, InsertProperties
<1>c. /\ next_pid' = next_pid + 1
      /\ next_pid' \in 1..(MaxPid + 1)
      /\ state' = [state EXCEPT ![next_pid] = "READY"]
      /\ task_table' = task_table \cup {next_pid}
  <2>1. next_pid' = next_pid + 1
    BY DEF SysFork, AddTask
  <2>2. next_pid' \in 1..(MaxPid + 1)
    BY <1>a, <2>1, MaxPidAssumption
  <2>. QED BY <2>1, <2>2 DEF SysFork, AddTask
<1>d. /\ current \in Processes /\ trap = "none" /\ next = 0
      /\ state[current] = "RUNNING" \/ current \in Stranded
      /\ state[current] \in {"RUNNING", "READY"}
      /\ current \notin Range(ready_queue)
      /\ ~ sie[CliPid] /\ need_reschedule = FALSE
  BY ProcessCalls DEF SysFork, Syscall
<1>1. TypeOK'
  BY <1>0, <1>a, <1>b, <1>c, <1>d
     DEF TypeOK, SysFork, Syscall, queues, States, IdleLabels, CliLabels
<1>2. QueueInv' /\ NoneStranded
  <2>1. \A u \in Tasks : state'[u] = IF u = next_pid THEN "READY" ELSE state[u]
    BY <1>0, <1>a, <1>c DEF TypeOK
  <2>2. UNCHANGED <<current, waiting_queue, killed_queue, freed, node, next>>
    BY DEF SysFork
  <2>3. /\ Range(ready_queue') \subseteq {u \in Pids : state'[u] = "READY"}
        /\ NoneStranded
    BY <1>0, <1>a, <1>b, <2>1 DEF QueueInv, Stranded, NoneStranded
  <2>4. Range(waiting_queue') = {u \in Pids : state'[u] = "WAITING"}
    BY <1>0, <1>a, <2>1, <2>2 DEF QueueInv
  <2>5. Range(killed_queue') =
          {u \in Pids : state'[u] = "KILLED"} \ (freed' \cup {node'})
    BY <1>0, <1>a, <2>1, <2>2 DEF QueueInv
  <2>. QED BY <1>0, <1>b, <2>1, <2>2, <2>3, <2>4, <2>5 DEF QueueInv, Stranded
<1>3. BootInv'
  BY <1>0, <1>a, <1>b, <1>c, <1>d DEF TypeOK, BootInv, SysFork, Syscall, queues
<1>4. SwitchInv'
  BY <1>0, <1>a, <1>b, <1>c, <1>d
     DEF TypeOK, SwitchInv, SysFork, Syscall, queues
<1>5. CurrentInv'
  BY <1>0, <1>a, <1>b, <1>c, <1>d
     DEF TypeOK, CurrentInv, SysFork, Syscall, queues, Stranded
<1>6. IdleInv'
  BY <1>0, <1>a, <1>b, <1>c, <1>d
     DEF TypeOK, IdleInv, SysFork, Syscall, queues, IdleLabels, CliLabels
<1>7. TableInv'
  <2>1. \A u \in Pids : u < next_pid' <=> u < next_pid \/ u = next_pid
    BY <1>a, <1>c
  <2>2. \A u \in Tasks : state'[u] = IF u = next_pid THEN "READY" ELSE state[u]
    BY <1>0, <1>a, <1>c DEF TypeOK
  <2>3. \A u \in Pids : u < next_pid' <=> state'[u] # "NONE"
    BY <1>0, <2>1, <2>2 DEF TableInv
  <2>4. UNCHANGED <<current, freed, node>> /\ pc'[IdlePid] = pc[IdlePid]
    BY <1>0 DEF TypeOK, SysFork, Goto
  <2>5. task_table' = {u \in Pids : state'[u] # "NONE"}
           \ (freed' \cup IF pc'[IdlePid] = "free" THEN {node'} ELSE {})
    <3>1. next_pid \notin freed /\ next_pid # node
      BY <1>0, <1>a DEF TableInv
    <3>2. {u \in Pids : state'[u] # "NONE"} =
            {u \in Pids : state[u] # "NONE"} \cup {next_pid}
      BY <1>a, <2>2
    <3>. QED BY <1>0, <1>c, <2>4, <3>1, <3>2 DEF TableInv
  <2>6. next_pid' > CliPid
    BY <1>a, <1>c
  <2>7. \A u \in freed' : state'[u] = "KILLED"
    BY <1>0, <1>a, <2>2, <2>4 DEF TableInv, TypeOK
  <2>8. node' # 0 => state'[node'] = "KILLED" /\ node' \notin freed'
    BY <1>0, <1>a, <2>2, <2>4 DEF TableInv, TypeOK
  <2>9. /\ node' # 0 <=> pc'[IdlePid] \in {"unlist", "free"}
        /\ current' \notin freed'
        /\ node' # 0 => current' # node'
    BY <1>0, <2>4 DEF TableInv
  <2>10. current' < next_pid'
    <3>1. current' = current /\ next_pid' = next_pid + 1
      BY DEF SysFork, AddTask
    <3>. QED BY <1>0, <1>a, <3>1, Sorts DEF TableInv, TypeOK, Tasks
  <2>. QED BY <2>3, <2>5, <2>6, <2>7, <2>8, <2>9, <2>10 DEF TableInv
<1>8. CliInv'
  BY <1>0, <1>a, <1>b, <1>c, <1>d
     DEF TypeOK, CliInv, SysFork, Syscall, queues, IdleLabels, CliLabels
<1>9. ExecWaitSound'
  BY <1>0, <1>a, <1>b, <1>c, <1>d
     DEF TypeOK, ExecWaitSound, SysFork, Syscall, queues
<1>10. NoMissedInput'
  BY <1>0, <1>a, <1>b, <1>c, <1>d
     DEF TypeOK, NoMissedInput, SysFork, Syscall, queues
<1>. QED BY <1>1, <1>2, <1>3, <1>4, <1>5, <1>6, <1>7, <1>8, <1>9,
         <1>10 DEF SchedInv

\* A process begins to wait; it waits for input only when there is none.
LEMMA WaitInSessionKeeps ==
  ASSUME NEW id \in Events, NEW arg \in Tasks,
         current \in Processes, trap = "none", trap' = "session",
         WaitInSession(id, arg), id = "UART_READ" => rx = 0,
         timeouts' \in SUBSET Pids,
         UNCHANGED <<current, task_table, freed, next_pid, sie, pc, node, next,
                     quantum, rx>>,
         SchedInv
  PROVE  SchedInv' /\ NoneStranded
<1>. USE Sorts DEF BootPid, IdlePid, CliPid, KThreads
<1>0. TypeOK /\ QueueInv /\ BootInv /\ SwitchInv /\ CurrentInv /\
      IdleInv /\ TableInv /\ CliInv /\ ExecWaitSound /\ NoMissedInput
  BY DEF SchedInv
<1>a. /\ current \in Processes /\ trap = "none" /\ next = 0
      /\ state[current] = "RUNNING" \/ current \in Stranded
      /\ state[current] \in {"RUNNING", "READY"}
      /\ current \notin Range(ready_queue)
      /\ ~ sie[CliPid] /\ need_reschedule = FALSE
  BY ProcessCalls
<1>b. /\ state' = [state EXCEPT ![current] = "WAITING"]
      /\ wait_event' = [wait_event EXCEPT ![current] = [id |-> id, arg |-> arg]]
      /\ need_reschedule' = TRUE
      /\ UNCHANGED <<ready_queue, killed_queue>>
  BY DEF WaitInSession, EnterWait
<1>c. /\ waiting_queue' \in Seq(Pids)
      /\ IsInjective(waiting_queue')
      /\ Range(waiting_queue') = Range(waiting_queue) \cup {current}
  <2>1. waiting_queue \in Seq(Pids) /\ IsInjective(waiting_queue)
    BY <1>0 DEF TypeOK, QueueInv
  <2>2. waiting_queue' = linked_list_insert(waiting_queue, current)
    BY DEF WaitInSession, EnterWait
  <2>3. current \in Pids /\ current \notin Range(waiting_queue)
    BY <1>0, <1>a DEF QueueInv
  <2>. QED BY <2>1, <2>2, <2>3, InsertProperties
<1>1. TypeOK'
  BY <1>0, <1>a, <1>b, <1>c DEF TypeOK, States, IdleLabels, CliLabels
<1>2. QueueInv' /\ NoneStranded
  <2>0. /\ state[current] \in {"RUNNING", "READY"} /\ current \in Pids
        /\ current \notin Range(ready_queue)
        /\ UNCHANGED <<ready_queue, killed_queue, current, freed, node, next>>
    BY <1>a, <1>b, <1>b
  <2>1. \A u \in Tasks : state'[u] = IF u = current THEN "WAITING" ELSE state[u]
    BY <1>0, <1>b DEF TypeOK
  <2>a. Range(waiting_queue') = Range(waiting_queue) \cup {current}
    BY <1>c
  <2>. HIDE DEF CliPid
  <2>2. /\ Range(ready_queue') \subseteq {u \in Pids : state'[u] = "READY"}
        /\ NoneStranded
    BY ZenonT(40), <1>0, <2>0, <2>1 DEF QueueInv, Stranded, NoneStranded
  <2>3. Range(waiting_queue') = {u \in Pids : state'[u] = "WAITING"}
    <3>1. Range(waiting_queue) = {u \in Pids : state[u] = "WAITING"}
      BY <1>0 DEF QueueInv
    <3>2. \A u \in Pids : state'[u] = IF u = current THEN "WAITING" ELSE state[u]
      BY <2>1
    <3>3. {u \in Pids : state'[u] = "WAITING"} =
            {u \in Pids : state[u] = "WAITING"} \cup {current}
      BY <2>0, <3>2
    <3>. QED BY <2>a, <3>1, <3>3
  <2>4. Range(killed_queue') =
          {u \in Pids : state'[u] = "KILLED"} \ (freed' \cup {node'})
    BY <1>0, <2>0, <2>1 DEF QueueInv
  <2>5. \A u \in Pids : state'[u] = "RUNNING" => state[u] = "RUNNING"
    BY <2>1
  <2>6. Stranded' \subseteq Processes
    BY <1>0, <2>2 DEF QueueInv, NoneStranded
  <2>. QED BY <1>0, <2>0, <1>c, <2>2, <2>3, <2>4, <2>5, <2>6 DEF QueueInv
<1>3. BootInv'
  BY <1>0, <1>a, <1>b, <1>c DEF TypeOK, BootInv
<1>4. SwitchInv'
  BY <1>0, <1>a, <1>b, <1>c DEF TypeOK, SwitchInv
<1>5. CurrentInv'
  BY <1>0, <1>a, <1>b, <1>c DEF TypeOK, CurrentInv
<1>6. IdleInv'
  BY <1>0, <1>a, <1>b, <1>c DEF TypeOK, IdleInv, IdleLabels, CliLabels
<1>7. TableInv'
  BY <1>0, <1>a, <1>b, <1>c DEF TypeOK, TableInv
<1>8. CliInv'
  BY <1>0, <1>a, <1>b, <1>c DEF TypeOK, CliInv, IdleLabels, CliLabels
<1>9. ExecWaitSound'
  <2>1. state'[CliPid] = state[CliPid] /\ wait_event'[CliPid] = wait_event[CliPid]
    BY <1>0, <1>a, <1>b DEF TypeOK
  <2>2. \A u \in Tasks : state'[u] = "KILLED" => state[u] = "KILLED"
    BY <1>0, <1>b DEF TypeOK
  <2>3. wait_event[CliPid].arg \in Tasks
    BY <1>0 DEF TypeOK
  <2>. QED BY <1>0, <2>1, <2>2, <2>3 DEF ExecWaitSound
<1>10. NoMissedInput'
  <2>1. \A u \in Range(waiting_queue) : wait_event'[u] = wait_event[u]
    BY <1>0, <1>a, <1>b DEF TypeOK, QueueInv
  <2>2. wait_event'[current].id = id
    BY <1>0, <1>b DEF TypeOK
  <2>. QED BY <1>0, <1>c, <2>1, <2>2 DEF NoMissedInput
<1>. QED BY <1>1, <1>2, <1>3, <1>4, <1>5, <1>6, <1>7, <1>8, <1>9,
         <1>10 DEF SchedInv

\* A process is killed, by itself, by another or by its page fault.
LEMMA KillKeeps ==
  ASSUME NEW pid \in Pids, pid # IdlePid, Killable(pid), DoKill(pid),
         SparesStranded,
         current \in Processes, trap = "none", trap' \in {"session", "fault"},
         need_reschedule' = (trap' = "session" /\ pid = current),
         trap' = "fault" => pid = current,
         UNCHANGED <<current, wait_event, task_table, freed, next_pid, sie, pc,
                     node, next, quantum, timeouts, rx>>,
         SchedInv
  PROVE  SchedInv' /\ NoneStranded
<1>. USE Sorts DEF BootPid, IdlePid, CliPid, KThreads
<1>0. TypeOK /\ QueueInv /\ BootInv /\ SwitchInv /\ CurrentInv /\
      IdleInv /\ TableInv /\ CliInv /\ ExecWaitSound /\ NoMissedInput
  BY DEF SchedInv
<1>a. /\ current \in Processes /\ trap = "none" /\ next = 0
      /\ state[current] = "RUNNING" \/ current \in Stranded
      /\ state[current] \in {"RUNNING", "READY"}
      /\ current \notin Range(ready_queue)
      /\ ~ sie[CliPid] /\ need_reschedule = FALSE
  BY ProcessCalls
<1>b. state[pid] \in {"READY", "RUNNING",
         "WAITING"} /\ pid \notin freed /\ pid # node
  BY <1>0 DEF Killable, TableInv, TypeOK, States
<1>c. PICK S \in SUBSET Pids : KillOutcome(pid, S)
  BY <1>0, <1>b, KillEffect
<1>d. \A u \in Tasks : state'[u] = IF u \in S THEN "READY"
                                 ELSE IF u = pid THEN "KILLED"
                                 ELSE state[u]
  BY <1>c DEF KillOutcome
<1>e. \A u \in S : u \in Pids /\ state[u] = "WAITING" /\ u # pid
  BY <1>c DEF KillOutcome
<1>1. TypeOK'
  BY <1>0, <1>a, <1>b, <1>c, <1>d, <1>e
     DEF TypeOK, KillOutcome, States, IdleLabels, CliLabels
<1>2. QueueInv' /\ NoneStranded
  <2>1. pid \notin Range(killed_queue)
    BY <1>0, <1>b DEF QueueInv
  <2>2. /\ Range(ready_queue') \subseteq {u \in Pids : state'[u] = "READY"}
        /\ NoneStranded
    BY <1>0, <1>c, <1>d, <1>e DEF QueueInv, KillOutcome, Stranded, NoneStranded
  <2>3. Range(waiting_queue') = {u \in Pids : state'[u] = "WAITING"}
    BY <1>0, <1>c, <1>d, <1>e DEF QueueInv, KillOutcome
  <2>4. Range(killed_queue') =
          {u \in Pids : state'[u] = "KILLED"} \ (freed' \cup {node'})
    <3>1. {u \in Pids : state'[u] = "KILLED"} =
            {u \in Pids : state[u] = "KILLED"} \cup {pid}
      BY <1>d, <1>e
    <3>2. Range(killed_queue') = Range(killed_queue) \cup {pid}
      BY <1>c DEF KillOutcome
    <3>. QED BY <1>0, <1>b, <3>1, <3>2 DEF QueueInv
  <2>5. \A u \in Pids : state'[u] = "RUNNING" => state[u] = "RUNNING"
    BY <1>d
  <2>. QED BY <1>0, <1>c, <2>1, <2>2, <2>3, <2>4, <2>5
              DEF QueueInv, KillOutcome, Stranded
<1>3. BootInv'
  BY <1>0, <1>a, <1>b, <1>c, <1>d, <1>e DEF TypeOK, BootInv, KillOutcome
<1>4. SwitchInv'
  BY <1>0, <1>a, <1>b, <1>c, <1>d, <1>e DEF TypeOK, SwitchInv, KillOutcome
<1>5. CurrentInv'
  BY <1>0, <1>a, <1>b, <1>c, <1>d, <1>e
     DEF TypeOK, CurrentInv, KillOutcome, Stranded
<1>6. IdleInv'
  BY <1>0, <1>a, <1>b, <1>c, <1>d, <1>e
     DEF TypeOK, IdleInv, KillOutcome, IdleLabels, CliLabels
<1>7. TableInv'
  <2>1. \A u \in Pids : state'[u] = "NONE" <=> state[u] = "NONE"
    BY <1>b, <1>d, <1>e
  <2>2. \A u \in Pids : state[u] = "KILLED" => state'[u] = "KILLED"
    BY <1>d, <1>e
  <2>3. {u \in Pids : state'[u] # "NONE"} = {u \in Pids : state[u] # "NONE"}
    BY <2>1
  <2>. QED BY <1>0, <2>1, <2>2, <2>3 DEF TableInv, TypeOK
<1>8. CliInv'
  BY <1>0, <1>a, <1>b, <1>c, <1>d, <1>e
     DEF TypeOK, CliInv, KillOutcome, IdleLabels, CliLabels
<1>9. ExecWaitSound'
  <2>. SUFFICES ASSUME state'[CliPid] = "WAITING",
                       wait_event[CliPid].id = "PROCESS_KILL"
                PROVE  state'[wait_event[CliPid].arg] # "KILLED"
    BY DEF ExecWaitSound
  <2>1. CliPid \notin S /\ CliPid # pid /\ state[CliPid] = "WAITING"
    BY <1>d
  <2>2. wait_event[CliPid].arg # pid /\ wait_event[CliPid].arg \in Tasks
    BY <1>0, <1>c, <2>1 DEF TypeOK, KillOutcome
  <2>3. state[wait_event[CliPid].arg] # "KILLED"
    BY <1>0, <2>1 DEF ExecWaitSound
  <2>. QED BY <1>d, <2>2, <2>3
<1>10. NoMissedInput'
  BY <1>0, <1>a, <1>b, <1>c, <1>d, <1>e DEF TypeOK, NoMissedInput, KillOutcome
<1>. QED BY <1>1, <1>2, <1>3, <1>4, <1>5, <1>6, <1>7, <1>8, <1>9,
         <1>10 DEF SchedInv

\* A kill that finds no task to kill.
LEMMA NotKilledKeeps ==
  ASSUME current \in Processes, trap = "none", trap' \in {"none", "session"},
         UNCHANGED <<state, ready_queue, waiting_queue, killed_queue,
                     need_reschedule, current, wait_event, task_table, freed,
                     next_pid, sie, pc, node, next, quantum, timeouts>>,
         rx' \in 0..rx,
         SchedInv
  PROVE  SchedInv' /\ NoneStranded
<1>. USE Sorts DEF BootPid, IdlePid, CliPid, KThreads
<1>0. TypeOK /\ QueueInv /\ BootInv /\ SwitchInv /\ CurrentInv /\
      IdleInv /\ TableInv /\ CliInv /\ ExecWaitSound /\ NoMissedInput
  BY DEF SchedInv
<1>a. /\ current \in Processes /\ trap = "none" /\ next = 0
      /\ state[current] = "RUNNING" \/ current \in Stranded
      /\ state[current] \in {"RUNNING", "READY"}
      /\ current \notin Range(ready_queue)
      /\ ~ sie[CliPid] /\ need_reschedule = FALSE
  BY ProcessCalls
<1>b. rx' \in 0..RxMax /\ (rx = 0 => rx' = 0)
  BY <1>0, RxMaxAssumption DEF TypeOK
<1>1. TypeOK'
  BY <1>0, <1>a, <1>b DEF TypeOK, States, IdleLabels, CliLabels
<1>2. QueueInv' /\ NoneStranded
  BY <1>0, <1>a, <1>b DEF TypeOK, QueueInv, Stranded, NoneStranded
<1>3. BootInv'
  BY <1>0, <1>a, <1>b DEF TypeOK, BootInv
<1>4. SwitchInv'
  BY <1>0, <1>a, <1>b DEF TypeOK, SwitchInv
<1>5. CurrentInv'
  BY <1>0, <1>a, <1>b DEF TypeOK, CurrentInv, Stranded
<1>6. IdleInv'
  BY <1>0, <1>a, <1>b DEF TypeOK, IdleInv, IdleLabels, CliLabels
<1>7. TableInv'
  BY <1>0, <1>a, <1>b DEF TypeOK, TableInv
<1>8. CliInv'
  BY <1>0, <1>a, <1>b DEF TypeOK, CliInv, IdleLabels, CliLabels
<1>9. ExecWaitSound'
  BY <1>0, <1>a, <1>b DEF TypeOK, ExecWaitSound
<1>10. NoMissedInput'
  BY <1>0, <1>a, <1>b DEF TypeOK, NoMissedInput
<1>. QED BY <1>1, <1>2, <1>3, <1>4, <1>5, <1>6, <1>7, <1>8, <1>9,
         <1>10 DEF SchedInv

\* A process that executes another program is marked ready but not queued.
LEMMA SysExecKeeps ==
  ASSUME SchedInv, SysExec
  PROVE  SchedInv'
<1>. USE Sorts DEF BootPid, IdlePid, CliPid, KThreads
<1>0. TypeOK /\ QueueInv /\ BootInv /\ SwitchInv /\ CurrentInv /\
      IdleInv /\ TableInv /\ CliInv /\ ExecWaitSound /\ NoMissedInput
  BY DEF SchedInv
<1>a. /\ current \in Processes /\ trap = "none" /\ next = 0
      /\ state[current] = "RUNNING" \/ current \in Stranded
      /\ state[current] \in {"RUNNING", "READY"}
      /\ current \notin Range(ready_queue)
      /\ ~ sie[CliPid] /\ need_reschedule = FALSE
  BY ProcessCalls DEF SysExec, Syscall
<1>b. /\ trap' = "session"
      /\ state' = [state EXCEPT ![current] = "READY"]
      /\ wait_event' = [wait_event EXCEPT ![current].id = "NONE"]
      /\ UNCHANGED <<current, ready_queue, waiting_queue, killed_queue,
                     task_table, freed, next_pid, sie, pc, node, next,
                     need_reschedule, quantum, timeouts, rx>>
  BY DEF SysExec, Syscall, queues
<1>c. \A u \in Tasks : state'[u] = IF u = current THEN "READY" ELSE state[u]
  BY <1>0, <1>b DEF TypeOK
<1>d. \A u \in Tasks : u # current => wait_event'[u] = wait_event[u]
  BY <1>0, <1>b DEF TypeOK
<1>1. TypeOK'
  <2>1. state' \in [Tasks -> States]
    BY <1>0, <1>b DEF TypeOK, States
  <2>2. wait_event' \in [Tasks -> [id : Events, arg : Tasks]]
    <3>1. wait_event[current] \in [id : Events, arg : Tasks] /\ "NONE" \in Events
      BY <1>0 DEF TypeOK, Events
    <3>2. [wait_event[current] EXCEPT !.id = "NONE"] \in [id : Events, arg : Tasks]
      BY <3>1
    <3>. QED BY <1>0, <1>b, <3>2 DEF TypeOK
  <2>3. TypeOK
    BY <1>0
  <2>4. trap' \in {"none", "session", "fault"}
    BY <1>b
  <2>. QED BY <1>b, <2>1, <2>2, <2>3, <2>4 DEF TypeOK
<1>e. current \in Pids /\ Stranded' = Stranded \cup {current}
  BY <1>0, <1>a, <1>b, <1>c DEF Stranded
<1>2. QueueInv'
  <2>1. Range(ready_queue') \subseteq {u \in Pids : state'[u] = "READY"}
    BY <1>0, <1>a, <1>b, <1>c DEF TypeOK, QueueInv
  <2>2. Range(waiting_queue') = {u \in Pids : state'[u] = "WAITING"}
    BY <1>0, <1>a, <1>b, <1>c DEF QueueInv
  <2>3. Range(killed_queue') =
          {u \in Pids : state'[u] = "KILLED"} \ (freed' \cup {node'})
    BY <1>0, <1>a, <1>b, <1>c DEF QueueInv
  <2>4. \A u \in Pids : state'[u] = "RUNNING" => state[u] = "RUNNING"
    BY <1>c
  <2>5. Stranded' \subseteq Processes
    BY <1>0, <1>a, <1>e DEF QueueInv
  <2>. QED BY <1>0, <1>b, <2>1, <2>2, <2>3, <2>4, <2>5 DEF QueueInv
<1>3. BootInv'
  BY <1>0, <1>a, <1>b, <1>c DEF BootInv
<1>4. SwitchInv'
  BY <1>0, <1>a, <1>b, <1>c DEF SwitchInv
<1>5. CurrentInv'
  BY <1>0, <1>a, <1>b, <1>c, <1>e DEF CurrentInv
<1>6. IdleInv'
  BY <1>0, <1>a, <1>b, <1>c DEF IdleInv
<1>7. TableInv'
  BY <1>0, <1>a, <1>b, <1>c DEF TypeOK, TableInv
<1>8. CliInv'
  BY <1>0, <1>a, <1>b, <1>c, <1>d DEF CliInv
<1>9. ExecWaitSound'
  BY <1>0, <1>a, <1>b, <1>c, <1>d DEF TypeOK, ExecWaitSound
<1>10. NoMissedInput'
  <2>1. \A u \in Range(waiting_queue) : u \in Tasks /\ u # current
    BY <1>0, <1>a DEF QueueInv
  <2>. QED BY <1>0, <1>b, <1>d, <2>1 DEF NoMissedInput
<1>. QED BY <1>1, <1>2, <1>3, <1>4, <1>5, <1>6, <1>7, <1>8, <1>9,
         <1>10 DEF SchedInv

-----------------------------------------------------------------------------
(* The steps put together.                                                 *)

\* The kernel starts in a state of the invariant.
LEMMA InitSchedInv == Init => SchedInv
<1>. SUFFICES ASSUME Init PROVE SchedInv
  OBVIOUS
<1>. USE Sorts DEF BootPid, IdlePid, CliPid, KThreads
<1>1. /\ ready_queue \in Seq(Pids) /\ IsInjective(ready_queue)
      /\ Range(ready_queue) = {1, 2}
      /\ waiting_queue \in Seq(Pids) /\ IsInjective(waiting_queue)
      /\ Range(waiting_queue) = {}
      /\ killed_queue \in Seq(Pids) /\ IsInjective(killed_queue)
      /\ Range(killed_queue) = {}
  <2>1. /\ << >> \in Seq(Pids) /\ IsInjective(<< >>) /\ Range(<< >>) = {}
    BY DEF IsInjective, Range
  <2>2. <<1, 2>> \in Seq(Pids) /\ IsInjective(<<1, 2>>)
    BY DEF IsInjective
  <2>3. Range(<<1, 2>>) = {1, 2}
    BY DEF Range
  <2>. QED BY <2>1, <2>2, <2>3 DEF Init
<1>2. \A t \in Tasks : state[t] = IF t = 0 THEN "KILLED"
                                  ELSE IF t \in {1, 2} THEN "READY"
                                  ELSE "NONE"
  BY DEF Init
<1>3. TypeOK
  <2>1. state \in [Tasks -> States]
    BY DEF Init, States
  <2>2. wait_event \in [Tasks -> [id : Events, arg : Tasks]]
    <3>1. [id |-> "NONE", arg |-> 0] \in [id : Events, arg : Tasks]
      BY DEF Events
    <3>. QED BY <3>1 DEF Init
  <2>3. next_pid \in 1..(MaxPid + 1) /\ rx \in 0..RxMax
    BY MaxPidAssumption, RxMaxAssumption DEF Init
  <2>4. pc \in [KThreads -> IdleLabels \cup CliLabels]
    BY DEF Init, IdleLabels, CliLabels
  <2>5. sie \in [Tasks -> BOOLEAN]
    BY DEF Init
  <2>. QED BY <1>1, <2>1, <2>2, <2>3, <2>4, <2>5 DEF Init, TypeOK
<1>4. QueueInv
  <2>1. \A t \in Pids : /\ state[t] = "READY" <=> t \in {1, 2}
                        /\ state[t] \notin {"WAITING", "KILLED", "RUNNING"}
    BY <1>2
  <2>2. /\ Range(ready_queue) \subseteq {t \in Pids : state[t] = "READY"}
        /\ Stranded \subseteq Processes
    BY <1>1, <2>1 DEF Stranded
  <2>3. /\ Range(waiting_queue) = {t \in Pids : state[t] = "WAITING"}
        /\ Range(killed_queue) = {t \in Pids : state[t] = "KILLED"} \ (freed \cup {node})
    BY <1>1, <2>1
  <2>. QED BY <1>1, <2>1, <2>2, <2>3 DEF QueueInv
<1>5. BootInv /\ SwitchInv /\ CurrentInv /\ IdleInv /\ CliInv
  <2>1. \A t \in Tasks : sie[t] = (t # 0) /\ wait_event[t].id = "NONE"
    BY DEF Init
  <2>2. pc[0] = "reap" /\ pc[1] = "reap" /\ pc[2] = "get"
    BY DEF Init
  <2>3. current = 0 /\ next = 0 /\ trap = "none" /\ next_pid = 3 /\ node = 0
        /\ need_reschedule = FALSE /\ killed_queue = << >>
    BY DEF Init
  <2>4. BootInv
    BY <1>2, <2>1, <2>2, <2>3 DEF BootInv
  <2>5. SwitchInv
    BY <2>2, <2>3 DEF SwitchInv
  <2>6. CurrentInv
    BY <2>3 DEF CurrentInv
  <2>7. IdleInv
    BY <1>2, <2>2 DEF IdleInv, IdleLabels
  <2>8. CliInv
    BY <2>1, <2>2, <2>3 DEF Init, CliInv, CliLabels
  <2>. QED BY <2>4, <2>5, <2>6, <2>7, <2>8
<1>6. TableInv
  <2>1. \A t \in Pids : t < 3 <=> state[t] # "NONE"
    BY <1>2, FirstPids
  <2>2. {t \in Pids : state[t] # "NONE"} = {1, 2}
    BY <1>2
  <2>. QED BY <2>1, <2>2 DEF Init, TableInv
<1>7. ExecWaitSound /\ NoMissedInput
  BY <1>1, <1>2 DEF Init, ExecWaitSound, NoMissedInput
<1>. QED BY <1>3, <1>4, <1>5, <1>6, <1>7 DEF SchedInv

\* The threads keep the invariant.
LEMMA ThreadsKeep ==
  ASSUME SchedInv, \/ \E t \in {BootPid, IdlePid} : IdleStep(t)
               \/ CliStep
  PROVE  SchedInv' /\ NoneStranded
<1>1. ASSUME NEW t \in {BootPid, IdlePid}, IdleStep(t) PROVE SchedInv' /\ NoneStranded
  <2>1. CASE IdleReap(t)
    BY <2>1, IdleReapNothingKeeps, IdleReapOneKeeps
  <2>2. CASE IdleUnlist(t)
    BY <2>2, IdleUnlistKeeps
  <2>3. CASE IdleFree(t)
    BY <2>3, IdleFreeKeeps
  <2>4. CASE ThreadNext(t, "yield")
    <3>1. t \in KThreads /\ t # CliPid
      BY DEF KThreads, BootPid, IdlePid, CliPid
    <3>2. PickNext \/ ready_queue = << >>
      BY <2>4 DEF ThreadNext
    <3>. QED BY <2>4, <3>1, <3>2, ThreadNextPickKeeps, ThreadNextNoneKeeps
  <2>5. CASE switch_to_kernel(t)
    BY <2>5, SwitchKeeps DEF KThreads
  <2>. QED BY <1>1, <2>1, <2>2, <2>3, <2>4, <2>5 DEF IdleStep
<1>2. ASSUME CliStep PROVE SchedInv' /\ NoneStranded
  <2>1. CASE CliGet
    BY <2>1, CliGetKeeps
  <2>2. CASE CliCommand
    BY <2>2, CliCommandKeeps
  <2>3. CASE CliExec
    BY <2>3, CliExecKeeps
  <2>7. CASE command_settimeout
    BY <2>7, SetTimeoutKeeps
  <2>4. CASE CliWait
    <3>1. CASE At(CliPid, "wait_read") /\ EnterWait("UART_READ", 0)
      <4>1. "UART_READ" \in Events /\ 0 \in Tasks
        BY Sorts DEF Events
      <4>. QED BY <2>4, <3>1, <4>1, CliWaitKeeps
    <3>2. CASE At(CliPid, "wait_write") /\ EnterWait("UART_WRITE", 0)
      <4>1. "UART_WRITE" \in Events /\ 0 \in Tasks
        BY Sorts DEF Events
      <4>. QED BY <2>4, <3>2, <4>1, CliWaitKeeps
    <3>3. CASE At(CliPid, "wait_kill") /\ EnterWait("PROCESS_KILL", next_pid - 1)
      <4>1. "PROCESS_KILL" \in Events
        BY DEF Events
      <4>2. next_pid - 1 \in Tasks
        BY <3>3, Sorts DEF SchedInv, CliInv, At
      <4>. QED BY <2>4, <3>3, <4>1, <4>2, CliWaitKeeps
    <3>. QED BY <2>4, <3>1, <3>2, <3>3 DEF CliWait
  <2>5. CASE ThreadNext(CliPid, "next")
    <3>1. CliPid \in KThreads
      BY DEF KThreads
    <3>2. PickNext \/ ready_queue = << >>
      BY <2>5 DEF ThreadNext
    <3>. QED BY <2>5, <3>1, <3>2, ThreadNextPickKeeps, ThreadNextNoneKeeps
  <2>6. CASE switch_to_kernel(CliPid)
    BY <2>6, SwitchKeeps DEF KThreads
  <2>. QED BY <1>2, <2>1, <2>2, <2>3, <2>4, <2>5, <2>6, <2>7 DEF CliStep
<1>. QED BY <1>1, <1>2

\* A kill in a system call keeps the invariant, unless it is aimed at the
\* idle thread.
LEMMA KillInSessionKeeps ==
  ASSUME SchedInv, NEW pid \in Pids, pid # IdlePid, SparesStranded,
         current \in Processes, trap = "none", trap' = "session",
         KillInSession(pid),
         UNCHANGED <<current, wait_event, task_table, freed, next_pid, sie, pc,
                     node, next, quantum, timeouts, rx>>
  PROVE  SchedInv' /\ NoneStranded
<1>1. need_reschedule = FALSE
  BY ProcessCalls
<1>2. CASE Killable(pid) /\ DoKill(pid) /\
           need_reschedule' = (need_reschedule \/ pid = current)
  <2>1. need_reschedule' = (trap' = "session" /\ pid = current)
    BY <1>1, <1>2
  <2>. QED BY <1>2, <2>1, KillKeeps
<1>3. CASE UNCHANGED <<state, queues, need_reschedule>>
  <2>1. rx' \in 0..rx
    BY DEF SchedInv, TypeOK
  <2>. QED BY <1>3, <2>1, NotKilledKeeps DEF queues
<1>. QED BY <1>2, <1>3 DEF KillInSession

\* What user processes do keeps the invariant.
LEMMA ProcessesKeep ==
  ASSUME WellBehaved, SchedInv, ProcessStep, SparesStranded
  PROVE  SchedInv' /\ (NoExec => NoneStranded)
<1>0. /\ Processes \subseteq Pids /\ IdlePid \notin Processes
      /\ 0 \in Tasks /\ Pids \subseteq Tasks
      /\ Targets \subseteq Pids /\ IdlePid \notin Targets
      /\ {"UART_READ", "UART_WRITE", "TIMEOUT", "PROCESS_KILL"} \subseteq Events
      /\ timeouts \in SUBSET Pids /\ rx \in Nat
  BY Sorts, TargetsAssumption, RxMaxAssumption
  DEF WellBehaved, SchedInv, TypeOK, IdlePid, Events, Pids
<1>1. CASE SysFork
  BY <1>1, SysForkKeeps
<1>2. CASE SysExit
  BY <1>0, <1>2, KillInSessionKeeps DEF SysExit, Syscall
<1>3. ASSUME NEW pid \in Targets, SysStop(pid) PROVE SchedInv' /\ NoneStranded
  BY <1>0, <1>3, KillInSessionKeeps DEF SysStop, Syscall
<1>4. ASSUME NEW pid \in Targets, SysWaitpid(pid) PROVE SchedInv' /\ NoneStranded
  BY <1>0, <1>4, WaitInSessionKeeps DEF SysWaitpid, Syscall
<1>5. CASE SysUsleep
  <2>1. timeouts' \in SUBSET Pids
    BY <1>0, <1>5 DEF SysUsleep, Syscall
  <2>. QED BY <1>0, <1>5, <2>1, WaitInSessionKeeps DEF SysUsleep, Syscall
<1>6. CASE SysUartRead
  <2>1. CASE rx = 0
    <3>1. WaitInSession("UART_READ", 0) /\ UNCHANGED rx
      BY <1>6, <2>1 DEF SysUartRead
    <3>. QED BY <1>0, <1>6, <2>1, <3>1, WaitInSessionKeeps
             DEF SysUartRead, Syscall
  <2>2. CASE rx # 0
    <3>1. rx' \in 0..rx /\ UNCHANGED <<state, wait_event, queues, need_reschedule>>
      BY <1>0, <1>6, <2>2 DEF SysUartRead
    <3>2. /\ current \in Processes /\ trap = "none" /\ trap' = "session"
          /\ UNCHANGED <<current, wait_event, task_table, freed, next_pid, sie,
                         pc, node, next, quantum, timeouts>>
      BY <1>0, <1>6, <2>2, <3>1 DEF SysUartRead, Syscall
    <3>. QED BY <3>1, <3>2, NotKilledKeeps DEF queues
  <2>. QED BY <2>1, <2>2
<1>7. CASE SysUartWrite
  BY <1>0, <1>7, WaitInSessionKeeps DEF SysUartWrite, Syscall
<1>8. CASE SysExec
  BY <1>8, SysExecKeeps DEF NoExec, SysExec, Syscall
<1>9. CASE SysOther
  <2>1. rx' \in 0..rx
    BY <1>0, <1>9 DEF SysOther
  <2>. QED BY <1>9, <2>1, NotKilledKeeps DEF SysOther, Syscall, queues
<1>10. CASE PageFault
  <2>1. rx' \in 0..rx
    BY <1>0, <1>10 DEF PageFault
  <2>2. CASE Killable(current) /\ DoKill(current) /\ trap' = "fault"
    <3>1. need_reschedule' = (trap' = "session" /\ current = current)
      BY <1>10, <2>2, ProcessCalls DEF PageFault
    <3>. QED BY <1>0, <1>10, <2>2, <3>1, KillKeeps DEF PageFault
  <2>3. CASE UNCHANGED <<state, queues, trap>>
    BY <1>10, <2>1, <2>3, NotKilledKeeps DEF PageFault, queues
  <2>. QED BY <1>10, <2>2, <2>3 DEF PageFault
<1>. QED BY <1>1, <1>2, <1>3, <1>4, <1>5, <1>6, <1>7, <1>8, <1>9,
         <1>10 DEF ProcessStep

\* The interrupt tasks that come to their end, and the ends of traps.
TrapStep ==
  \/ PageFaultNext
  \/ \E pid \in Processes : TimerSleep(pid)
  \/ TimerMessage
  \/ TimerQuantum \/ UartReceive \/ UartTransmit \/ EndSession

\* They keep the invariant.
LEMMA TrapsKeep ==
  ASSUME SchedInv, TrapStep
  PROVE  SchedInv' /\ NoneStranded
<1>1. CASE PageFaultNext
  <2>1. next = 0 /\ current # IdlePid
    BY <1>1, Sorts
       DEF PageFaultNext, SchedInv, CurrentInv, SwitchInv, KThreads, BootPid,
           IdlePid, CliPid
  <2>2. ready_queue # << >>
    BY <2>1, IdleReady
  <2>3. PickNext
    BY <1>1, <2>2 DEF PageFaultNext, NextInTrap
  <2>. QED BY <1>1, <2>3, PageFaultNextKeeps
<1>2. CASE EndSession
  <2>1. CASE need_reschedule /\ PickNext
    BY <1>2, <2>1, EndSessionSwitchKeeps
  <2>2. CASE ~ need_reschedule \/ ready_queue = << >>
    BY <1>2, <2>2, EndSessionReturnKeeps
  <2>. QED BY <1>2, <2>1, <2>2 DEF EndSession, NextInTrap
<1>3. Processes \subseteq Pids
  BY DEF Processes
<1>. QED BY <1>1, <1>2, <1>3, TimerSleepKeeps, TimerMessageKeeps,
         TimerQuantumKeeps, UartReceiveKeeps, UartTransmitKeeps DEF TrapStep

\* A stuttering step kills nobody.
LEMMA SparesUnchanged ==
  ASSUME UNCHANGED vars
  PROVE  SparesStranded
BY DEF SparesStranded, Stranded, vars

\* Nothing that has been freed is reachable.
LEMMA FreedUnreachable ==
  ASSUME SchedInv
  PROVE  NoUseAfterFree
<1>1. \A t \in freed : t \in Pids /\ state[t] = "KILLED"
  BY DEF SchedInv, TypeOK, TableInv
<1>2. freed \cap (Range(ready_queue) \cup Range(waiting_queue)
                    \cup Range(killed_queue)) = {}
  BY <1>1 DEF SchedInv, QueueInv
<1>3. freed \cap task_table = {} /\ current \notin freed
  BY DEF SchedInv, TableInv
<1>4. next \notin freed /\ node \notin freed
  BY <1>1, Sorts DEF SchedInv, TableInv, SwitchInv
<1>. QED BY <1>2, <1>3, <1>4 DEF NoUseAfterFree

\* What is interrupted with a message queued is not the bootstrap task, nor
\* the command line, which has run with interrupts off since before that.
LEMMA MessageInterrupts ==
  ASSUME SchedInv, MessageBlocks
  PROVE  /\ current \in Pids /\ current \in Tasks
         /\ current \notin {BootPid, CliPid} /\ current \notin freed
<1>1. trap = "session" \/ (trap = "none" /\ sie[current])
  BY DEF MessageBlocks, Interruptible
<1>2. CliPid \in timeouts
  BY DEF MessageBlocks
<1>. QED BY <1>1, <1>2, Sorts DEF SchedInv, TypeOK, BootInv, CliInv, TableInv, BootPid

\* A message gets stuck: the task the timer interrupted stands in the waiting
\* queue too, and what the cut queues still lead to was in them before.
LEMMA MessageGetsStuck ==
  ASSUME SchedInv, MessageBlocks
  PROVE  IInv' /\ Stuck'
<1>0. /\ TypeOK /\ ExecWaitSound /\ NoMissedInput /\ NoUseAfterFree
      /\ current \in Pids /\ current \in Tasks
      /\ current \notin {BootPid, CliPid} /\ current \notin freed
  BY MessageInterrupts, FreedUnreachable DEF SchedInv
<1>1. /\ waiting_queue' \in Seq(Pids)
      /\ Range(waiting_queue') \subseteq Range(waiting_queue) \cup {current}
      /\ current \in Range(waiting_queue')
  BY <1>0, InsertAgainProperties DEF MessageBlocks, TypeOK
<1>2. /\ ready_queue' \in Seq(Pids)
      /\ Range(ready_queue') \subseteq Range(ready_queue)
      /\ killed_queue' \in Seq(Pids)
      /\ Range(killed_queue') \subseteq Range(killed_queue)
  BY <1>0, CutProperties DEF MessageBlocks, TypeOK
<1>3. /\ state' = [state EXCEPT ![current] = "WAITING"]
      /\ wait_event' = [wait_event EXCEPT ![current] = [id |-> "UART_WRITE", arg |-> 0]]
      /\ trap' = "message" /\ need_reschedule' = TRUE
      /\ timeouts' \in {timeouts, timeouts \ {CliPid}}
      /\ UNCHANGED <<current, task_table, freed, next_pid, sie, pc, node, next,
                     quantum, rx>>
  BY DEF MessageBlocks
<1>4. TypeOK'
  <2>1. state' \in [Tasks -> States]
    BY <1>0, <1>3 DEF TypeOK, States
  <2>2. wait_event' \in [Tasks -> [id : Events, arg : Tasks]]
    <3>1. [id |-> "UART_WRITE", arg |-> 0] \in [id : Events, arg : Tasks]
      BY Sorts DEF Events
    <3>. QED BY <1>0, <1>3, <3>1 DEF TypeOK
  <2>. QED BY <1>0, <1>1, <1>2, <1>3, <2>1, <2>2 DEF TypeOK
<1>5. ExecWaitSound'
  <2>1. CliPid \in Tasks
    BY Sorts DEF CliPid
  <2>2. state'[CliPid] = state[CliPid] /\ wait_event'[CliPid] = wait_event[CliPid]
    BY <1>0, <1>3, <2>1 DEF TypeOK
  <2>3. \A t \in Tasks : state'[t] = "KILLED" => state[t] = "KILLED"
    BY <1>0, <1>3 DEF TypeOK
  <2>4. wait_event[CliPid].arg \in Tasks
    BY <1>0, <2>1 DEF TypeOK
  <2>. QED BY <1>0, <2>2, <2>3, <2>4 DEF ExecWaitSound
<1>6. NoMissedInput'
  <2>1. \A t \in Range(waiting_queue') :
          wait_event'[t].id = "UART_READ" => t \in Range(waiting_queue)
                                             /\ wait_event[t].id = "UART_READ"
    <3>1. \A t \in Pids : t \in Tasks
      BY Sorts
    <3>2. \A t \in Range(waiting_queue') : t \in Pids
      BY <1>1, RangeInSeq
    <3>3. \A t \in Tasks : wait_event'[t] = IF t = current
                                            THEN [id |-> "UART_WRITE", arg |-> 0]
                                            ELSE wait_event[t]
      BY <1>0, <1>3 DEF TypeOK
    <3>. QED BY <1>1, <3>1, <3>2, <3>3
  <2>. QED BY <1>0, <1>3, <2>1 DEF NoMissedInput
<1>7. NoUseAfterFree'
  BY <1>0, <1>1, <1>2, <1>3 DEF NoUseAfterFree
<1>. QED BY <1>1, <1>3, <1>4, <1>5, <1>6, <1>7 DEF IInv, Stuck

\* Nothing but the message goes on once it is stuck ...
LEMMA OnlyMessageLoops ==
  ASSUME Stuck, Next
  PROVE  MessageLoops
BY DEF Stuck, Next, IdleStep, IdleReap, IdleUnlist, IdleFree, ThreadNext,
       switch_to_kernel, CliStep, CliGet, CliCommand, CliExec,
       command_settimeout, CliWait, At, InThread, ProcessStep, SysFork, SysExit,
       SysStop, SysWaitpid, SysUsleep, SysUartRead, SysUartWrite, SysExec,
       SysOther, Syscall, PageFault, PageFaultNext, TimerSleep, TimerMessage,
       MessageBlocks, TimerQuantum, UartReceive, UartTransmit, InterruptTask,
       Interruptible, EndSession

\* ... and it changes nothing more than the waiting queue.
LEMMA MessageStaysStuck ==
  ASSUME IInv, MessageLoops
  PROVE  IInv' /\ Stuck'
<1>0. /\ Stuck /\ TypeOK /\ ExecWaitSound /\ NoMissedInput /\ NoUseAfterFree
      /\ current \in Range(waiting_queue)
  BY DEF IInv, MessageLoops
<1>1. current \in Pids
  BY <1>0, RangeInSeq DEF TypeOK
<1>2. /\ waiting_queue' \in Seq(Pids)
      /\ Range(waiting_queue') \subseteq Range(waiting_queue)
      /\ current \in Range(waiting_queue')
  BY <1>0, <1>1, InsertAgainProperties DEF MessageLoops, TypeOK
<1>3. UNCHANGED <<current, state, wait_event, ready_queue, killed_queue,
                  task_table, freed, next_pid, sie, pc, node, next, trap,
                  need_reschedule, quantum, timeouts, rx>>
  BY DEF MessageLoops
<1>4. TypeOK'
  BY <1>0, <1>2, <1>3 DEF TypeOK
<1>5. ExecWaitSound' /\ NoMissedInput' /\ NoUseAfterFree'
  BY <1>0, <1>2, <1>3 DEF ExecWaitSound, NoMissedInput, NoUseAfterFree
<1>. QED BY <1>0, <1>2, <1>3, <1>4, <1>5 DEF IInv, Stuck

\* No other step than the message getting stuck opens its session.
LEMMA OnlyMessageBlocks ==
  ASSUME ~ Stuck, Next, ~ MessageBlocks
  PROVE  ~ Stuck'
<1>1. ASSUME ProcessStep PROVE ~ Stuck'
  BY <1>1
     DEF Stuck, ProcessStep, SysFork, SysExit, SysStop, SysWaitpid, SysUsleep,
         SysUartRead, SysUartWrite, SysExec, SysOther, Syscall, PageFault
<1>2. ASSUME CliStep \/ \E t \in {BootPid, IdlePid} : IdleStep(t) PROVE ~ Stuck'
  BY <1>2
     DEF Stuck, IdleStep, IdleReap, IdleUnlist, IdleFree, ThreadNext,
         switch_to_kernel, CliStep, CliGet, CliCommand, CliExec,
         command_settimeout, CliWait
<1>. QED BY <1>1, <1>2
         DEF Stuck, Next, PageFaultNext, TimerSleep, TimerMessage, MessageLoops,
             TimerQuantum, UartReceive, UartTransmit, InterruptTask, EndSession

\* A stuttering step keeps what SchedInv says.
LEMMA StutterKeeps ==
  ASSUME SchedInv, UNCHANGED vars
  PROVE  SchedInv' /\ NoneStranded
BY DEF NoneStranded, vars, queues, SchedInv, TypeOK, QueueInv, BootInv,
       SwitchInv, CurrentInv, IdleInv, TableInv, CliInv, ExecWaitSound,
       NoMissedInput, Stranded

\* As long as no message gets stuck, every step does.
LEMMA SchedKeeps ==
  ASSUME WellBehaved, SchedInv, [Next]_vars, [SparesStranded]_vars, ~ Stuck
  PROVE  \/ MessageBlocks
         \/ SchedInv' /\ (NoExec => NoneStranded)
<1>1. CASE Next
  <2>1. SparesStranded
    BY SparesUnchanged
  <2>2. CASE \/ \E t \in {BootPid, IdlePid} : IdleStep(t)
             \/ CliStep
    BY <2>2, ThreadsKeep
  <2>3. CASE ProcessStep
    BY <2>1, <2>3, ProcessesKeep
  <2>4. CASE TrapStep
    BY <2>4, TrapsKeep
  <2>. QED BY <1>1, <2>2, <2>3, <2>4 DEF Next, MessageLoops, TrapStep
<1>2. CASE UNCHANGED vars
  BY <1>2, StutterKeeps
<1>. QED BY <1>1, <1>2

\* The invariant is inductive.
LEMMA NextKeeps ==
  ASSUME WellBehaved, IInv, [Next]_vars, [SparesStranded]_vars
  PROVE  IInv' /\ (Stuck => Stuck')
<1>1. CASE UNCHANGED vars
  BY <1>1
     DEF vars, queues, IInv, Stuck, NoUseAfterFree, SchedInv, TypeOK, QueueInv,
         BootInv, SwitchInv, CurrentInv, IdleInv, TableInv, CliInv,
         ExecWaitSound, NoMissedInput, Stranded
<1>2. CASE Stuck /\ Next
  BY <1>2, OnlyMessageLoops, MessageStaysStuck
<1>3. CASE ~ Stuck /\ Next
  <2>1. SchedInv
    BY <1>3 DEF IInv
  <2>2. CASE MessageBlocks
    BY <1>3, <2>1, <2>2, MessageGetsStuck
  <2>3. CASE SchedInv' /\ ~ MessageBlocks
    <3>1. NoUseAfterFree'
      BY <2>3, FreedUnreachable, PTL
    <3>2. ~ Stuck' => IInv'
      BY <2>3, <3>1 DEF IInv, SchedInv
    <3>3. ~ Stuck'
      BY <1>3, <2>3, OnlyMessageBlocks
    <3>. QED BY <1>3, <3>2, <3>3
  <2>. QED BY <1>3, <2>1, <2>2, <2>3, SchedKeeps
<1>. QED BY <1>1, <1>2, <1>3

\* No message is stuck at first.
LEMMA InitIInv == Init => IInv
<1>1. Init => ~ Stuck
  BY DEF Init, Stuck
<1>. QED BY <1>1, InitSchedInv, FreedUnreachable DEF IInv, SchedInv

\* Every reachable state satisfies the inductive invariant: the scheduler of
\* cpu_scheduler.c keeps its queues, its task table and the states of the
\* tasks in agreement until a message of settimeout gets stuck, and even then
\* what it has freed is reachable no more; for any number of tasks, also while
\* processes call exec.
THEOREM Invariance == WellBehaved => (Spec /\ StrandedSpared => []IInv)
<1>. SUFFICES ASSUME WellBehaved PROVE Spec /\ StrandedSpared => []IInv
  OBVIOUS
<1>1. Init => IInv
  BY InitIInv
<1>2. IInv /\ [Next]_vars /\ [SparesStranded]_vars => IInv'
  BY NextKeeps
<1>3. StrandedSpared <=> [][SparesStranded]_vars
  BY DEF StrandedSpared, SparesStranded
<1>. QED BY <1>1, <1>2, <1>3, PTL DEF Spec

\* The threads are ready at first, and in the ready queue.
LEMMA NoneStrandedAtStart == Init => Stranded = {}
<1>1. Init => Range(ready_queue) = {1, 2}
  BY DEF Init, IdlePid, CliPid, Range
<1>2. Init => \A t \in Pids : state[t] = "READY" => t \in {1, 2}
  BY Sorts DEF Init, IdlePid, CliPid, BootPid
<1>. QED BY <1>1, <1>2 DEF Stranded

\* Without exec no step that keeps to the invariant kills a stranded task.
LEMMA NoExecSpares ==
  ASSUME WellBehaved, NoExec, IInv, Stuck \/ Stranded = {}, [Next]_vars
  PROVE  /\ SparesStranded
         /\ IInv' /\ (Stuck' \/ Stranded' = {})
<1>1. SparesStranded
  <2>1. CASE Stuck /\ Next
    BY <2>1, OnlyMessageLoops DEF MessageLoops, SparesStranded, Stranded
  <2>2. CASE Stranded = {}
    BY <2>2 DEF SparesStranded
  <2>. QED BY <2>1, <2>2, SparesUnchanged
<1>2. IInv' /\ (Stuck => Stuck')
  BY <1>1, NextKeeps
<1>3. ~ Stuck => Stuck' \/ Stranded' = {}
  <2>. SUFFICES ASSUME ~ Stuck PROVE Stuck' \/ Stranded' = {}
    OBVIOUS
  <2>1. SchedInv /\ Stranded = {}
    BY DEF IInv
  <2>2. MessageBlocks => Stuck'
    BY DEF MessageBlocks, Stuck
  <2>. QED BY <1>1, <2>1, <2>2, SchedKeeps DEF NoneStranded
<1>. QED BY <1>1, <1>2, <1>3

\* Without exec no task is ever ready and in no queue, until a message of
\* settimeout gets stuck, and the theorems that assume StrandedSpared assume
\* nothing.
THEOREM NothingStranded ==
  WellBehaved /\ NoExec =>
    (Spec => [](Stuck \/ Stranded = {}) /\ StrandedSpared)
<1>. SUFFICES ASSUME WellBehaved, NoExec
              PROVE  Spec => [](Stuck \/ Stranded = {}) /\ StrandedSpared
  OBVIOUS
<1>1. Init => IInv /\ (Stuck \/ Stranded = {})
  BY InitIInv, NoneStrandedAtStart
<1>2. /\ IInv /\ (Stuck \/ Stranded = {}) /\ [Next]_vars
      => /\ [SparesStranded]_vars
         /\ (IInv /\ (Stuck \/ Stranded = {}))'
  BY NoExecSpares
<1>3. StrandedSpared <=> [][SparesStranded]_vars
  BY DEF StrandedSpared, SparesStranded
<1>. QED BY <1>1, <1>2, <1>3, PTL DEF Spec

\* No task is lost or queued twice by the scheduler, whatever the
\* interleaving of threads, system calls and interrupts, while none calls exec
\* and no message of settimeout is stuck.
THEOREM TasksAreKept == WellBehaved /\ NoExec => (Spec => []NoTaskLost)
<1>. SUFFICES ASSUME WellBehaved, NoExec PROVE Spec => []NoTaskLost
  OBVIOUS
<1>1. IInv /\ (Stuck \/ Stranded = {}) => NoTaskLost
  <2>. SUFFICES ASSUME IInv, Stranded = {}, ~ Stuck PROVE NoTaskLost
    BY DEF NoTaskLost
  <2>0. SchedInv
    BY DEF IInv
  <2>1. Range(ready_queue) = {t \in Pids : state[t] = "READY"}
    BY <2>0 DEF SchedInv, QueueInv, Stranded
  <2>. QED BY <2>0, <2>1 DEF SchedInv, QueueInv, NoTaskLost
<1>. QED BY <1>1, Invariance, NothingStranded, PTL

\* The variables of the scheduler keep their types.
THEOREM TypeCorrect == WellBehaved => (Spec /\ StrandedSpared => []TypeOK)
<1>. SUFFICES ASSUME WellBehaved PROVE Spec /\ StrandedSpared => []TypeOK
  OBVIOUS
<1>1. IInv => TypeOK
  BY DEF IInv
<1>. QED BY <1>1, Invariance, PTL

\* A process killed, or waiting, executes nothing: the idle thread makes
\* sure that cpu_scheduler_next always finds another task for it.
THEOREM RunningExecutes ==
  WellBehaved /\ NoExec => (Spec => []OnlyRunningExecutes)
<1>. SUFFICES ASSUME WellBehaved, NoExec PROVE Spec => []OnlyRunningExecutes
  OBVIOUS
<1>1. IInv /\ (Stuck \/ Stranded = {}) => OnlyRunningExecutes
  BY ProcessCalls DEF OnlyRunningExecutes, IInv, Stuck
<1>. QED BY <1>1, Invariance, NothingStranded, PTL

\* With exec, what executes is running or has called exec since it was
\* scheduled: still neither killed nor waiting, and in no queue.
THEOREM StrandedExecutes ==
  WellBehaved => (Spec /\ StrandedSpared =>
                    [](OnlyRunningExecutes \/ current \in Stranded))
<1>. SUFFICES ASSUME WellBehaved
              PROVE  Spec /\ StrandedSpared =>
                       [](OnlyRunningExecutes \/ current \in Stranded)
  OBVIOUS
<1>1. IInv => (OnlyRunningExecutes \/ current \in Stranded)
  BY ProcessCalls DEF OnlyRunningExecutes, IInv, Stuck
<1>. QED BY <1>1, Invariance, PTL

\* The memory of a task is given back by the idle thread only when nothing
\* refers to the task any more, and a message that gets stuck makes nothing
\* refer to it again.
THEOREM FreeIsSafe ==
  WellBehaved => (Spec /\ StrandedSpared => []NoUseAfterFree)
<1>. SUFFICES ASSUME WellBehaved
              PROVE  Spec /\ StrandedSpared => []NoUseAfterFree
  OBVIOUS
<1>1. IInv => NoUseAfterFree
  BY DEF IInv
<1>. QED BY <1>1, Invariance, PTL

\* command_exec never waits for a process that has already ended, because
\* the command line runs with interrupts off from its first character on.
THEOREM ExecWaitIsSound ==
  WellBehaved => (Spec /\ StrandedSpared => []ExecWaitSound)
<1>. SUFFICES ASSUME WellBehaved
              PROVE  Spec /\ StrandedSpared => []ExecWaitSound
  OBVIOUS
<1>1. IInv => ExecWaitSound
  BY DEF IInv
<1>. QED BY <1>1, Invariance, PTL

\* No reader of the serial line sleeps over input in the receive ring.
THEOREM InputIsNotMissed ==
  WellBehaved => (Spec /\ StrandedSpared => []NoMissedInput)
<1>. SUFFICES ASSUME WellBehaved
              PROVE  Spec /\ StrandedSpared => []NoMissedInput
  OBVIOUS
<1>1. IInv => NoMissedInput
  BY DEF IInv
<1>. QED BY <1>1, Invariance, PTL

-----------------------------------------------------------------------------
(* The scheduler implements TaskLifecycle: every step of CpuScheduler maps *)
(* to a step of the life of one task, or to the waking of several, or      *)
(* leaves the life of all tasks alone.  That a killed task stays killed is *)
(* a property of the abstract specification carried over to the code.      *)

\* Where no message is stuck, the stage of each task in the abstract life is
\* what its state says.
Stage == [t \in Pids |->
           IF t \in freed THEN "FREED"
           ELSE IF t = current /\ t \in Stranded THEN "RUNNING"
           ELSE state[t]]

ByState == INSTANCE TaskLifecycle WITH
  Task    <- Pids,
  Initial <- {IdlePid, CliPid},
  life    <- Stage

\* What a step of the scheduler may do to it.
Refines == ByState!Next \/ UNCHANGED Stage

\* The abstract stage of a task that is not freed is its state, or RUNNING.
LEMMA StageValue ==
  \A t \in Pids : Stage[t] = IF t \in freed THEN "FREED"
                            ELSE IF t = current /\ t \in Stranded
                                 THEN "RUNNING"
                            ELSE state[t]
BY DEF Stage

\* A step that leaves the task on the CPU, the ready queue, the states of the
\* tasks and the set of the freed ones alone stutters in the life of tasks.
LEMMA StutterRefines ==
  ASSUME UNCHANGED <<state, freed, current, ready_queue>>
  PROVE  Refines
BY DEF Refines, Stage, Stranded

\* So does the switch from a thread to the task already marked as running.
LEMMA SwitchRefines ==
  ASSUME SchedInv, NEW t \in KThreads, switch_to_kernel(t)
  PROVE  Refines
<1>1. /\ UNCHANGED <<state, freed, ready_queue>>
      /\ current = t /\ current' = next
  BY DEF switch_to_kernel, At, InThread, queues
<1>2. state[next] = "RUNNING"
  BY DEF switch_to_kernel, At, InThread, SchedInv, SwitchInv
<1>3. Stranded' = Stranded
  BY <1>1 DEF Stranded
<1>4. current \notin Stranded
  BY <1>1 DEF SchedInv, QueueInv, Processes
<1>5. current' \notin Stranded
  BY <1>1, <1>2 DEF Stranded
<1>6. UNCHANGED Stage
  BY <1>1, <1>3, <1>4, <1>5 DEF Stage
<1>. QED BY <1>6 DEF Refines

\* And exec: the process that calls it goes on running.
LEMMA ExecRefines ==
  ASSUME SchedInv, SysExec
  PROVE  Refines
<1>1. /\ current \in Processes /\ trap = "none"
      /\ UNCHANGED <<current, ready_queue, freed>>
      /\ state' = [state EXCEPT ![current] = "READY"]
  BY DEF SysExec, Syscall, queues
<1>2. /\ current \in Pids /\ current \in Tasks
      /\ state[current] = "RUNNING" \/ current \in Stranded
      /\ current \notin Range(ready_queue)
  BY <1>1, ProcessCalls, Sorts
<1>3. \A u \in Tasks : state'[u] = IF u = current THEN "READY" ELSE state[u]
  BY <1>1 DEF SchedInv, TypeOK
<1>4. current \in Stranded'
  BY <1>1, <1>2, <1>3 DEF Stranded
<1>5. UNCHANGED Stage
  BY <1>1, <1>2, <1>3, <1>4, Sorts DEF Stage
<1>. QED BY <1>5 DEF Refines

\* IdleFree is the abstract Free.
LEMMA FreeRefines ==
  ASSUME SchedInv, NEW t \in {BootPid, IdlePid}, IdleFree(t)
  PROVE  Refines
<1>1. node \in Pids /\ state[node] = "KILLED" /\ node \notin freed
  BY Sorts
     DEF SchedInv, TypeOK, TableInv, BootInv, IdleFree, At, InThread, BootPid,
         IdlePid
<1>2. /\ UNCHANGED <<state, current, ready_queue>>
      /\ freed' = freed \cup {node}
  BY DEF IdleFree, queues
<1>a. Stranded' = Stranded /\ node \notin Stranded
  BY <1>1, <1>2 DEF Stranded
<1>3. Stage[node] = "KILLED"
  BY <1>1, <1>a DEF Stage
<1>4. Stage' = [Stage EXCEPT ![node] = "FREED"]
  BY <1>1, <1>2, <1>a DEF Stage
<1>5. PICK t0 \in Pids : t0 = node
  BY <1>1
<1>6. ByState!Free(t0)
  BY <1>3, <1>4, <1>5 DEF ByState!Free, Stage
<1>. QED BY <1>6 DEF Refines, ByState!Next

\* The decision of cpu_scheduler_next is the abstract Dispatch.
LEMMA PickRefines ==
  ASSUME SchedInv, next = 0, PickNext, UNCHANGED freed,
         \/ current' = Head(ready_queue)
         \/ current' = current /\ current \in KThreads
  PROVE  Refines
<1>1. PICK h \in Pids :
        /\ h = Head(ready_queue)
        /\ state[h] = "READY"
        /\ Range(ready_queue') =
             (Range(ready_queue) \cup
                (IF state[current] = "RUNNING" THEN {current} ELSE {})) \ {h}
        /\ state' = [u \in Tasks |-> IF u = h THEN "RUNNING"
                                     ELSE IF u = current /\ state[u] = "RUNNING"
                                          THEN "READY"
                                     ELSE state[u]]
  BY PickEffect DEF SchedInv
<1>2. \A u \in Pids : state[u] = "RUNNING" => u = current
  BY DEF SchedInv, QueueInv
<1>a. h \notin Stranded
  <2>1. h \in Range(ready_queue)
    BY <1>1, HeadInRange DEF PickNext, SchedInv, TypeOK
  <2>. QED BY <2>1 DEF Stranded
<1>b. \A u \in Stranded' : u \in Stranded
  BY <1>1, Sorts DEF Stranded
<1>c. current' \notin Stranded'
  <2>1. CASE current' = h
    <3>1. state'[h] = "RUNNING"
      BY <1>1, Sorts
    <3>. QED BY <2>1, <3>1 DEF Stranded
  <2>2. CASE current' = current /\ current \in KThreads
    BY <1>b, <2>2 DEF SchedInv, QueueInv, Processes
  <2>. QED BY <1>1, <2>1, <2>2
<1>d. \A u \in Stranded : state[u] = "READY"
  BY DEF Stranded
<1>3. h \notin freed /\ \A u \in freed : u \in Pids /\ state[u] = "KILLED"
  BY <1>1 DEF SchedInv, TypeOK, TableInv
<1>4. \A u \in Pids : state'[u] = IF u = h THEN "RUNNING"
                                  ELSE IF state[u] = "RUNNING" THEN "READY"
                                  ELSE state[u]
  BY <1>1, <1>2, Sorts
<1>5. Stage[h] = "READY"
  BY <1>1, <1>3, <1>a, StageValue
<1>6. Stage' = [u \in Pids |-> IF u = h THEN "RUNNING"
                              ELSE IF Stage[u] = "RUNNING" THEN "READY"
                              ELSE Stage[u]]
  BY <1>3, <1>4, <1>a, <1>c, <1>d DEF Stage
<1>7. ByState!Dispatch(h)
  BY <1>5, <1>6 DEF ByState!Dispatch, Stage
<1>. QED BY <1>7 DEF Refines, ByState!Next

\* Adding a new task is the abstract Create.
LEMMA AddRefines ==
  ASSUME SchedInv, next_pid <= MaxPid, AddTask(next_pid),
         UNCHANGED <<freed, current>>
  PROVE  Refines
<1>1. next_pid \in Pids
  BY DEF SchedInv, TypeOK, Pids
<1>2. state[next_pid] = "NONE"
  BY <1>1, Sorts DEF SchedInv, TableInv
<1>3. next_pid \notin freed
  BY <1>2 DEF SchedInv, TableInv
<1>4. state' = [state EXCEPT ![next_pid] = "READY"]
  BY DEF AddTask
<1>a. Range(ready_queue') = Range(ready_queue) \cup {next_pid}
  BY <1>1, <1>2, InsertProperties DEF AddTask, SchedInv, TypeOK, QueueInv
<1>b. next_pid \notin Stranded /\ Stranded' = Stranded
  BY <1>1, <1>2, <1>4, <1>a, Sorts DEF Stranded, SchedInv, TypeOK
<1>5. Stage[next_pid] = "NONE"
  BY <1>1, <1>2, <1>3, <1>b, StageValue
<1>6. Stage' = [Stage EXCEPT ![next_pid] = "READY"]
  BY <1>1, <1>3, <1>4, <1>b, Sorts DEF Stage, SchedInv, TypeOK
<1>7. PICK t \in Pids : t = next_pid
  BY <1>1
<1>8. ByState!Create(t)
  BY <1>5, <1>6, <1>7 DEF ByState!Create, Stage
<1>. QED BY <1>8 DEF Refines, ByState!Next

\* Entering a wait is the abstract Block of the running task.
LEMMA WaitRefines ==
  ASSUME SchedInv, NEW id, NEW arg, EnterWait(id, arg),
         UNCHANGED <<freed, current, ready_queue>>,
         state[current] = "RUNNING" \/ current \in Stranded
  PROVE  Refines
<1>1. current \in Pids
  BY Sorts DEF SchedInv, TypeOK, BootInv, BootPid, Stranded
<1>2. current \notin freed
  BY DEF SchedInv, TableInv
<1>3. state' = [state EXCEPT ![current] = "WAITING"]
  BY DEF EnterWait
<1>4. Stage[current] = "RUNNING"
  BY <1>1, <1>2, StageValue
<1>a. current \notin Stranded'
  BY <1>1, <1>3, Sorts DEF Stranded, SchedInv, TypeOK
<1>5. Stage' = [Stage EXCEPT ![current] = "WAITING"]
  BY <1>1, <1>2, <1>3, <1>a, Sorts DEF Stage, SchedInv, TypeOK
<1>6. PICK t \in Pids : t = current
  BY <1>1
<1>7. ByState!Block(t)
  BY <1>4, <1>5, <1>6 DEF ByState!Block, Stage
<1>. QED BY <1>7 DEF Refines, ByState!Next

\* Firing an event is the abstract Wake.
LEMMA FireRefines ==
  ASSUME SchedInv, NEW S, S \subseteq Range(waiting_queue),
         FireCond(state, ready_queue, waiting_queue, S),
         UNCHANGED <<freed, current>>
  PROVE  Refines
<1>1. \A u \in S : u \in Pids /\ state[u] = "WAITING" /\ u \notin freed
  BY DEF SchedInv, QueueInv, TableInv
<1>2. state' = [t \in Tasks |-> IF t \in S THEN "READY" ELSE state[t]]
  BY DEF FireCond
<1>a. Range(ready_queue') = Range(ready_queue) \cup S
  <2>1. Range(Keep(waiting_queue, S)) = Range(waiting_queue) \cap S
    BY KeepProperties DEF SchedInv, TypeOK
  <2>2. Keep(waiting_queue, S) \in Seq(Pids) /\ ready_queue \in Seq(Pids)
    BY KeepProperties DEF SchedInv, TypeOK
  <2>3. ready_queue' = ready_queue \o Keep(waiting_queue, S)
    BY DEF FireCond
  <2>. QED BY <2>1, <2>2, <2>3, ConcatRange
<1>b. Stranded' = Stranded /\ \A u \in S : u \notin Stranded
  BY <1>1, <1>2, <1>a, Sorts DEF Stranded
<1>3. \A u \in S : Stage[u] = "WAITING"
  BY <1>1, <1>b, StageValue
<1>4. Stage' = [t \in Pids |-> IF t \in S THEN "READY" ELSE Stage[t]]
  BY <1>1, <1>2, <1>b, Sorts DEF Stage
<1>5. ByState!Wake(S)
  BY <1>3, <1>4 DEF ByState!Wake, Stage
<1>6. S \in SUBSET Pids
  BY <1>1
<1>. QED BY <1>5, <1>6 DEF Refines, ByState!Next

\* Killing a task is the abstract Kill.
LEMMA KillRefines ==
  ASSUME SchedInv, NEW pid \in Pids, Killable(pid), DoKill(pid), SparesStranded,
         UNCHANGED <<freed, current>>
  PROVE  Refines
<1>1. state[pid] \in {"READY", "RUNNING", "WAITING"} /\ pid \notin freed
  BY Sorts DEF SchedInv, Killable, TableInv, TypeOK, States
<1>2. PICK S \in SUBSET Pids :
        /\ \A u \in S : state[u] = "WAITING" /\ u # pid
        /\ Range(ready_queue') = (Range(ready_queue) \ {pid}) \cup S
        /\ state' = [t \in Tasks |-> IF t \in S THEN "READY"
                                     ELSE IF t = pid THEN "KILLED"
                                     ELSE state[t]]
  <2>1. TypeOK /\ QueueInv
    BY DEF SchedInv
  <2>2. PICK S \in SUBSET Pids : KillOutcome(pid, S)
    BY <1>1, <2>1, KillEffect
  <2>3. \A u \in S : state[u] = "WAITING" /\ u # pid
    BY <2>2 DEF KillOutcome
  <2>. QED BY <2>2, <2>3 DEF KillOutcome
<1>3. \A u \in S : u \notin freed
  BY <1>2 DEF SchedInv, TableInv
<1>a. pid \notin Stranded
  BY KilledIsQueued DEF SchedInv
<1>b. Stranded' = Stranded /\ \A u \in S : u \notin Stranded
  <2>1. \A u \in Pids : u \in Stranded' <=> u \in Stranded
    BY <1>2, <1>a, Sorts DEF Stranded
  <2>2. Stranded \subseteq Pids /\ Stranded' \subseteq Pids
    BY DEF Stranded
  <2>3. \A u \in S : u \notin Stranded
    BY <1>2 DEF Stranded
  <2>. QED BY <2>1, <2>2, <2>3
<1>4. /\ Stage[pid] \in {"READY", "RUNNING", "WAITING"}
      /\ \A u \in S : Stage[u] = "WAITING" /\ u # pid
  BY <1>1, <1>2, <1>3, <1>a, <1>b, StageValue
<1>5. Stage' = [u \in Pids |-> IF u = pid THEN "KILLED"
                              ELSE IF u \in S THEN "READY"
                              ELSE Stage[u]]
  BY <1>1, <1>2, <1>3, <1>a, <1>b, Sorts DEF Stage
<1>6. ByState!Kill(pid, S)
  BY <1>4, <1>5 DEF ByState!Kill, ByState!Alive, Stage
<1>. QED BY <1>6 DEF Refines, ByState!Next

\* The steps of the threads refine.
LEMMA ThreadsRefine ==
  ASSUME SchedInv, \/ \E t \in {BootPid, IdlePid} : IdleStep(t)
               \/ CliStep
  PROVE  Refines
<1>1. ASSUME NEW t \in KThreads, NEW label, label # "switch", ThreadNext(t, label)
      PROVE  Refines
  <2>1. next = 0
    BY <1>1 DEF SchedInv, SwitchInv, ThreadNext, At, InThread
  <2>2. CASE PickNext
    <3>1. UNCHANGED <<freed, current>> /\ current \in KThreads
      BY <1>1 DEF ThreadNext, At, InThread
    <3>. QED BY <2>1, <2>2, <3>1, PickRefines
  <2>3. CASE ~ PickNext
    BY <1>1, <2>3, StutterRefines DEF ThreadNext, queues
  <2>. QED BY <2>2, <2>3
<1>2. ASSUME NEW t \in {BootPid, IdlePid}, IdleStep(t) PROVE Refines
  <2>1. CASE IdleFree(t)
    BY <2>1, FreeRefines
  <2>2. CASE ThreadNext(t, "yield")
    BY <1>1, <2>2 DEF KThreads
  <2>3. CASE IdleReap(t) \/ IdleUnlist(t)
    BY <2>3, StutterRefines DEF IdleReap, IdleUnlist, queues
  <2>4. CASE switch_to_kernel(t)
    BY <2>4, SwitchRefines DEF KThreads
  <2>. QED BY <1>2, <2>1, <2>2, <2>3, <2>4 DEF IdleStep
<1>3. ASSUME CliStep PROVE Refines
  <2>1. CASE CliExec
    BY <2>1, AddRefines DEF CliExec
  <2>2. CASE CliWait
    <3>1. state[current] = "RUNNING"
      BY <2>2 DEF CliWait, At, InThread, SchedInv, CurrentInv
    <3>. QED BY <2>2, <3>1, WaitRefines DEF CliWait
  <2>3. CASE ThreadNext(CliPid, "next")
    BY <1>1, <2>3 DEF KThreads
  <2>4. CASE CliGet \/ CliCommand \/ command_settimeout
    BY <2>4, StutterRefines DEF CliGet, CliCommand, command_settimeout, queues
  <2>5. CASE switch_to_kernel(CliPid)
    BY <2>5, SwitchRefines DEF KThreads
  <2>. QED BY <1>3, <2>1, <2>2, <2>3, <2>4, <2>5 DEF CliStep
<1>. QED BY <1>2, <1>3

\* The steps of user processes refine.
LEMMA ProcessesRefine ==
  ASSUME SchedInv, ProcessStep, SparesStranded
  PROVE  Refines
<1>0. Processes \subseteq Pids /\ Targets \subseteq Pids
  BY Sorts, TargetsAssumption DEF Pids
<1>1. current \in Processes /\ trap = "none"
  BY DEF ProcessStep, SysFork, SysExit, SysStop, SysWaitpid, SysUsleep,
         SysUartRead, SysUartWrite, SysExec, SysOther, PageFault, Syscall
<1>2. state[current] = "RUNNING" \/ current \in Stranded
  BY <1>1, ProcessCalls
<1>3. CASE SysFork
  BY <1>3, AddRefines DEF SysFork
<1>4. ASSUME NEW pid \in Pids, KillInSession(pid), UNCHANGED <<freed, current>>
      PROVE  Refines
  BY <1>4, KillRefines, StutterRefines DEF KillInSession, queues
<1>5. CASE SysExit
  BY <1>0, <1>1, <1>4, <1>5 DEF SysExit
<1>6. ASSUME NEW pid \in Targets, SysStop(pid) PROVE Refines
  BY <1>0, <1>4, <1>6 DEF SysStop
<1>7. ASSUME NEW id, NEW arg, WaitInSession(id, arg), UNCHANGED <<freed, current>>
      PROVE  Refines
  BY <1>2, <1>7, WaitRefines DEF WaitInSession
<1>8. ASSUME NEW pid \in Targets, SysWaitpid(pid) PROVE Refines
  BY <1>7, <1>8 DEF SysWaitpid
<1>9. CASE SysUsleep
  BY <1>7, <1>9 DEF SysUsleep
<1>10. CASE SysUartRead
  BY <1>7, <1>10, StutterRefines DEF SysUartRead, queues
<1>11. CASE SysUartWrite
  BY <1>7, <1>11 DEF SysUartWrite
<1>12. CASE SysExec
  BY <1>12, ExecRefines
<1>13. CASE SysOther
  BY <1>13, StutterRefines DEF SysOther, queues
<1>14. CASE PageFault
  BY <1>0, <1>1, <1>14, KillRefines, StutterRefines DEF PageFault, queues
<1>. QED BY <1>3, <1>5, <1>6, <1>8, <1>9, <1>10, <1>11, <1>12, <1>13, <1>14
         DEF ProcessStep

\* Interrupt tasks and the ends of traps refine.
LEMMA TrapsRefine ==
  ASSUME SchedInv, TrapStep
  PROVE  Refines
<1>1. ASSUME next = 0, NextInTrap, UNCHANGED freed PROVE Refines
  BY <1>1, PickRefines, StutterRefines DEF NextInTrap, queues
<1>2. CASE PageFaultNext
  <2>1. next = 0
    BY <1>2, Sorts
       DEF PageFaultNext, SchedInv, CurrentInv, SwitchInv, KThreads, BootPid,
           IdlePid, CliPid
  <2>. QED BY <1>1, <1>2, <2>1 DEF PageFaultNext
<1>3. CASE EndSession
  <2>1. CASE need_reschedule
    <3>1. next = 0
      BY <2>1 DEF SchedInv, SwitchInv
    <3>. QED BY <1>1, <1>3, <2>1, <3>1 DEF EndSession
  <2>2. CASE ~ need_reschedule
    BY <1>3, <2>2, StutterRefines DEF EndSession, queues
  <2>. QED BY <2>1, <2>2
<1>4. ASSUME NEW pid \in Processes, TimerSleep(pid) PROVE Refines
  BY <1>4, FireRefines DEF TimerSleep, fire_timeout, WaitingFor
<1>5. CASE UartReceive
  BY <1>5, FireRefines DEF UartReceive, cpu_scheduler_fire, WaitingFor
<1>6. CASE UartTransmit
  BY <1>6, FireRefines DEF UartTransmit, cpu_scheduler_fire, WaitingFor
<1>8. CASE TimerMessage
  BY <1>8, StutterRefines DEF TimerMessage, queues
<1>7. CASE TimerQuantum
  BY <1>7, StutterRefines DEF TimerQuantum, queues
<1>. QED BY <1>2, <1>3, <1>4, <1>5, <1>6, <1>7, <1>8 DEF TrapStep

\* Every step of the scheduler refines, while no message is stuck.
LEMMA StepRefines ==
  ASSUME SchedInv, [Next]_vars, [SparesStranded]_vars, ~ Stuck, ~ MessageBlocks
  PROVE  Refines
<1>0. SparesStranded
  BY SparesUnchanged
<1>1. CASE \/ \E t \in {BootPid, IdlePid} : IdleStep(t)
           \/ CliStep
  BY <1>1, ThreadsRefine
<1>2. CASE ProcessStep
  BY <1>0, <1>2, ProcessesRefine
<1>3. CASE TrapStep
  BY <1>3, TrapsRefine
<1>4. CASE UNCHANGED vars
  BY <1>4, StutterRefines DEF vars, queues
<1>. QED BY <1>1, <1>2, <1>3, <1>4 DEF Next, TrapStep, MessageLoops

\* By then the place of a task and its state say the same.
LEMMA SameStage ==
  ASSUME SchedInv
  PROVE  Stage = Life
<1>1. /\ \A t \in Range(killed_queue) : t \in Pids /\ state[t] = "KILLED"
      /\ \A t \in Range(ready_queue) : t \in Pids /\ state[t] = "READY"
                                       /\ t \notin Stranded
  BY DEF SchedInv, QueueInv, Stranded
<1>2. \A t \in Stranded : state[t] = "READY"
  BY DEF Stranded
<1>3. \A t \in Pids : Stage[t] = Life[t]
  BY <1>1, <1>2 DEF Stage, Life
<1>. QED BY <1>3 DEF Stage, Life

\* So a step that refines by the one refines by the other.
LEMMA RefinesByPlace ==
  ASSUME Stage = Life, Stage' = Life', Refines
  PROVE  Lifecycle!Next \/ UNCHANGED Life
BY DEF Refines, ByState!Next, ByState!Create, ByState!Dispatch, ByState!Block,
       ByState!Wake, ByState!Kill, ByState!Free, ByState!Alive,
       Lifecycle!Next, Lifecycle!Create, Lifecycle!Dispatch, Lifecycle!Block,
       Lifecycle!Wake, Lifecycle!Kill, Lifecycle!Free, Lifecycle!Alive

\* A message that gets stuck blocks the task it interrupts, if that is running;
\* what is killed, ready or waiting stays so by its place.
LEMMA MessageRefines ==
  ASSUME SchedInv, MessageBlocks
  PROVE  Lifecycle!Next \/ UNCHANGED Life
<1>0. /\ current \in Pids /\ current \in Tasks /\ current \notin freed
      /\ TypeOK /\ QueueInv /\ TableInv
  BY MessageInterrupts DEF SchedInv
<1>1. /\ UNCHANGED <<current, freed>>
      /\ \A t \in Tasks : state'[t] = IF t = current THEN "WAITING" ELSE state[t]
  BY <1>0 DEF MessageBlocks, TypeOK
<1>2. /\ Range(ready_queue') \subseteq Range(ready_queue)
      /\ current \in Range(ready_queue) => current \in Range(ready_queue')
      /\ Range(killed_queue') \subseteq Range(killed_queue)
      /\ current \in Range(killed_queue) => current \in Range(killed_queue')
  BY <1>0, CutProperties DEF MessageBlocks, TypeOK
<1>3. /\ \A t \in Range(killed_queue) : state[t] = "KILLED"
      /\ \A t \in Range(ready_queue) : state[t] = "READY"
  BY <1>0 DEF QueueInv
<1>4. ASSUME NEW t \in Pids, t # current PROVE Life'[t] = Life[t]
  <2>1. t \in Tasks /\ state'[t] = state[t]
    BY <1>1, <1>4, Sorts
  <2>2. Life[t] = IF t \in freed THEN "FREED" ELSE state[t]
    BY <1>3, <1>4 DEF Life
  <2>3. Life'[t] = IF t \in freed THEN "FREED" ELSE state[t]
    BY <1>1, <1>2, <1>3, <1>4, <2>1 DEF Life
  <2>. QED BY <2>2, <2>3
<1>5. Life'[current] = IF current \in Range(killed_queue) THEN "KILLED"
                       ELSE IF current \in Range(ready_queue) THEN "READY"
                       ELSE "WAITING"
  <2>1. current \notin Stranded' /\ state'[current] = "WAITING"
    BY <1>0, <1>1 DEF Stranded
  <2>. QED BY <1>0, <1>1, <1>2, <2>1 DEF Life
<1>6. /\ current \in Range(killed_queue) => Life[current] = "KILLED"
      /\ (current \notin Range(killed_queue) /\ current \in Range(ready_queue))
           => Life[current] = "READY"
  BY <1>0 DEF Life
<1>7. (current \notin Range(killed_queue) /\ current \notin Range(ready_queue))
        => Life[current] \in {"RUNNING", "WAITING"}
  <2>. SUFFICES ASSUME current \notin Range(killed_queue),
                       current \notin Range(ready_queue)
                PROVE  Life[current] \in {"RUNNING", "WAITING"}
    OBVIOUS
  <2>1. Life[current] = IF current \in Stranded THEN "RUNNING" ELSE state[current]
    BY <1>0 DEF Life
  <2>2. state[current] = "READY" => current \in Stranded
    BY <1>0 DEF Stranded
  <2>3. state[current] \in States /\ state[current] # "NONE"
    BY <1>0 DEF TypeOK, TableInv
  <2>4. current # node
    BY <1>0, Sorts DEF TableInv
  <2>5. state[current] # "KILLED"
    BY <1>0, <2>4 DEF QueueInv
  <2>. QED BY <2>1, <2>2, <2>3, <2>5 DEF States
<1>8. CASE Life[current] = "RUNNING"
  <2>1. Life'[current] = "WAITING"
    BY <1>5, <1>6, <1>8
  <2>2. Life' = [Life EXCEPT ![current] = "WAITING"]
    BY <1>0, <1>4, <2>1 DEF Life
  <2>3. PICK t \in Pids : t = current
    BY <1>0
  <2>4. Lifecycle!Block(t)
    BY <1>8, <2>2, <2>3 DEF Lifecycle!Block
  <2>. QED BY <2>4 DEF Lifecycle!Next
<1>9. CASE Life[current] # "RUNNING"
  <2>1. \A t \in Pids : Life'[t] = Life[t]
    BY <1>4, <1>5, <1>6, <1>7, <1>9
  <2>. QED BY <2>1 DEF Life
<1>. QED BY <1>8, <1>9

\* So every step maps to a step of the life of the tasks, or to none.
LEMMA LifeSteps ==
  ASSUME WellBehaved, IInv, [Next]_vars, [SparesStranded]_vars
  PROVE  Lifecycle!Next \/ UNCHANGED Life
<1>1. CASE Stuck
  <2>1. MessageLoops \/ UNCHANGED vars
    BY <1>1, OnlyMessageLoops
  <2>. QED BY <2>1 DEF MessageLoops, vars, queues, Life, Stranded
<1>2. CASE ~ Stuck
  <2>1. SchedInv
    BY <1>2 DEF IInv
  <2>2. CASE ~ MessageBlocks
    <3>1. SchedInv'
      BY <1>2, <2>1, <2>2, SchedKeeps
    <3>2. (Stage = Life)'
      BY <3>1, SameStage, PTL
    <3>. QED BY <1>2, <2>1, <2>2, <3>2, SameStage, StepRefines, RefinesByPlace
  <2>. QED BY <2>1, <2>2, MessageRefines
<1>. QED BY <1>1, <1>2

\* The initial states of the kernel are initial in the life of tasks.
LEMMA InitRefines == Init => Lifecycle!Init
<1>. SUFFICES ASSUME Init PROVE Lifecycle!Init
  OBVIOUS
<1>1. freed = {} /\ \A t \in Pids : state[t] = IF t \in {IdlePid, CliPid}
                                               THEN "READY" ELSE "NONE"
  BY Sorts DEF Init, BootPid, IdlePid, CliPid
<1>2. /\ current \notin Pids
      /\ Range(killed_queue) = {} /\ Range(ready_queue) = {IdlePid, CliPid}
  BY Sorts DEF Init, BootPid, Range
<1>. QED BY <1>1, <1>2 DEF Lifecycle!Init, Life

\* cpu_scheduler.c implements the life of tasks: created once, one running at
\* a time, only the running one blocking, killed for good and freed once, also
\* when a message of settimeout gets stuck.
THEOREM SchedulerImplementsLifecycle ==
  WellBehaved => (Spec /\ StrandedSpared => ImplementsLifecycle)
<1>. SUFFICES ASSUME WellBehaved
              PROVE  Spec /\ StrandedSpared => ImplementsLifecycle
  OBVIOUS
<1>1. Init => Lifecycle!Init
  BY InitRefines
<1>2. IInv /\ [Next]_vars /\ [SparesStranded]_vars => [Lifecycle!Next]_Life
  BY LifeSteps
<1>3. StrandedSpared <=> [][SparesStranded]_vars
  BY DEF StrandedSpared, SparesStranded
<1>. QED BY <1>1, <1>2, <1>3, Invariance, PTL
         DEF Spec, ImplementsLifecycle, Lifecycle!Spec

\* No step of the scheduler brings a killed task back.
LEMMA KilledKept ==
  ASSUME SchedInv, SchedInv', [Next]_vars, [SparesStranded]_vars,
         NEW t \in Tasks, state[t] = "KILLED"
  PROVE  state'[t] = "KILLED"
<1>a. ~ MessageBlocks
  BY DEF MessageBlocks, SchedInv, CurrentInv
<1>b. Stuck => UNCHANGED state
  <2>1. MessageLoops => UNCHANGED state
    BY DEF MessageLoops
  <2>2. UNCHANGED vars => UNCHANGED state
    BY DEF vars
  <2>. QED BY <2>1, <2>2, OnlyMessageLoops
<1>1. CASE t \notin Pids
  BY <1>1, Sorts DEF SchedInv, BootInv, BootPid
<1>2. CASE t \in Pids /\ ~ Stuck
  <2>1. Stage[t] \in {"KILLED", "FREED"}
    <3>1. t \notin Stranded
      BY DEF Stranded
    <3>. QED BY <1>2, <3>1, StageValue
  <2>2. Stage'[t] \in {"KILLED", "FREED"}
    <3>1. CASE UNCHANGED Stage
      BY <2>1, <3>1
    <3>2. CASE ByState!Next
      BY <1>2, <2>1, <3>2
      DEF ByState!Next, ByState!Create, ByState!Dispatch,
          ByState!Block, ByState!Wake, ByState!Kill, ByState!Free,
          ByState!Alive, Stage
    <3>. QED BY <1>a, <1>2, <3>1, <3>2, StepRefines DEF Refines
  <2>3. Stage'[t] = IF t \in freed' THEN "FREED"
                   ELSE IF t = current' /\ t \in Stranded' THEN "RUNNING"
                   ELSE state'[t]
    BY <1>2 DEF Stage
  <2>4. t \in freed' => state'[t] = "KILLED"
    BY DEF SchedInv, TableInv
  <2>5. state'[t] # "FREED"
    BY Sorts DEF SchedInv, TypeOK, States
  <2>. QED BY <2>2, <2>3, <2>4, <2>5
<1>. QED BY <1>b, <1>1, <1>2

\* A killed task stays killed, in the abstract life and so in the code: no
\* late event, timeout or scheduling decision brings it back.  (A message that
\* gets stuck can mark it as waiting.)
THEOREM KilledStaysKilled ==
  WellBehaved => (Spec /\ StrandedSpared => KilledForever)
<1>. SUFFICES ASSUME WellBehaved PROVE Spec /\ StrandedSpared => KilledForever
  OBVIOUS
<1>1. IInv /\ [Next]_vars /\ [SparesStranded]_vars =>
        [\A t \in Tasks : state[t] = "KILLED" => state'[t] = "KILLED" \/ Stuck']_vars
  <2>. SUFFICES ASSUME IInv, [Next]_vars, [SparesStranded]_vars, NEW t \in Tasks,
                       state[t] = "KILLED", ~ Stuck'
                PROVE  state'[t] = "KILLED"
    OBVIOUS
  <2>1. ~ Stuck /\ ~ MessageBlocks
    BY NextKeeps DEF MessageBlocks, Stuck
  <2>2. SchedInv /\ SchedInv'
    BY <2>1, SchedKeeps DEF IInv
  <2>. QED BY <2>1, <2>2, KilledKept
<1>2. StrandedSpared <=> [][SparesStranded]_vars
  BY DEF StrandedSpared, SparesStranded
<1>. QED BY <1>1, <1>2, Invariance, PTL DEF Spec, KilledForever

-----------------------------------------------------------------------------
(* The inductive invariant.                                                *)

\* A registration in task.signals_list.
Signal == [signum : Signums, is_pending : BOOLEAN]
Resumed == [code : Codes, tp : Tasks]

SignalTypes ==
  /\ signals \in [Processes -> Seq(Signal)]
  /\ signal_sp \in [Processes -> 0..(StackFrames + 1)]
  /\ signal_stack \in [Processes -> [1..StackFrames -> Contexts]]
  /\ context \in [Processes -> Contexts]
  /\ interrupted \in [Processes -> Seq(Resumed)]
  /\ fresh \in SUBSET Processes
  /\ delivering \in BOOLEAN

\* The process has been created and has not ended.
Living(t) == state[t] \notin {"NONE", "KILLED"}

\* The first sp frames of the stack go on with what was interrupted: the first
\* with the program, on its own stack, the others with handlers whose stacks
\* are lost.  The context c is that of the program if there are none.
FramesSaved(sp, stack, contexts, c) ==
  /\ sp <= StackFrames
  /\ Len(contexts) = sp
  /\ \A i \in 1..sp : /\ Resumes(stack[i]) = contexts[i]
                      /\ contexts[i].code = 0 <=> i = 1
                      /\ stack[i].stack = IF i = 1 THEN "kept" ELSE "lost"
  /\ c.code = 0 <=> sp = 0
  /\ c.code = 0 => c.stack = "kept"

SavedInv ==
  \A t \in Processes : Living(t) =>
    FramesSaved(signal_sp[t], signal_stack[t], interrupted[t], context[t])

\* A signal is delivered to a process on its way out of a trap.
DeliverInv == delivering => current \in Processes /\ trap = "none"

\* A process to come has no handlers.
NewInv == \A t \in Processes : state[t] = "NONE" => signals[t] = << >>

SIInv ==
  /\ SchedInv
  /\ SignalTypes
  /\ SavedInv
  /\ DeliverInv
  /\ NewInv

\* With a message stuck only the types are left of what is about signals.
SignalInv ==
  /\ IInv
  /\ SignalTypes
  /\ DeliverInv
  /\ Stuck \/ SIInv

-----------------------------------------------------------------------------
(* The steps as steps of the scheduler.                                    *)

\* Every step but the delivery of a signal is a step of the scheduler.
LEMMA ScheduledSteps ==
  ASSUME SNext, ~ _signal_handler
  PROVE  Next
<1>0. Processes \subseteq Pids
  BY Sorts
<1>1. ASSUME NEW t \in {BootPid, IdlePid}, SIdle(t) PROVE Next
  BY <1>1 DEF SIdle, Next, IdleStep
<1>2. CASE SCli
  BY <1>2 DEF SCli, CliExecSignals, Next, CliStep
<1>3. CASE SProcess
  <2>1. ASSUME NEW pid \in Targets, NEW signum \in Signums, SysKill(pid, signum)
        PROVE  SysOther \/ SysStop(pid)
    BY <2>1 DEF SysKill
  <2>. QED BY <1>3, <2>1
              DEF SProcess, SysForkSignals, SysExecSignals, SysSigreturn,
                  SysSignal, Next, ProcessStep
<1>4. CASE SEndSession \/ SPageFaultNext
  BY <1>4 DEF SEndSession, SPageFaultNext, Next
<1>5. CASE SUnchanged
  BY <1>0, <1>5 DEF SUnchanged, Next, ProcessStep
<1>. QED BY <1>1, <1>2, <1>3, <1>4, <1>5 DEF SNext

\* A process executing a system call, or getting a signal, is alive.
LEMMA CallerLives ==
  ASSUME SchedInv, current \in Processes, trap = "none"
  PROVE  /\ state[current] \in {"RUNNING", "READY"} /\ Living(current)
         /\ current \in task_table /\ current \in Pids /\ current # IdlePid
         /\ next = 0 /\ need_reschedule = FALSE
<1>1. /\ state[current] \in {"RUNNING", "READY"}
      /\ next = 0 /\ need_reschedule = FALSE
  BY ProcessCalls
<1>2. current \in Pids /\ current # IdlePid
  BY Sorts DEF IdlePid
<1>3. current \in task_table
  BY <1>1, <1>2, Sorts DEF SchedInv, TableInv
<1>. QED BY <1>1, <1>2, <1>3 DEF Living

\* A process living after a step was living before it, unless it has been
\* created by it.
LEMMA LivedBefore ==
  ASSUME SchedInv, SchedInv', [Next]_vars, [SparesStranded]_vars,
         NEW t \in Processes, Living(t)', t # next_pid \/ next_pid' = next_pid,
         next_pid' \in {next_pid, next_pid + 1}
  PROVE  Living(t)
<1>1. t \in Pids /\ t \in Tasks /\ t \in Nat
  BY Sorts
<1>2. state[t] # "KILLED"
  BY <1>1, KilledKept DEF Living
<1>3. t < next_pid'
  BY <1>1 DEF Living, SchedInv, TableInv
<1>4. next_pid \in Nat
  BY DEF SchedInv, TypeOK
<1>5. t < next_pid
  BY <1>1, <1>3, <1>4
<1>6. state[t] # "NONE"
  BY <1>1, <1>5 DEF SchedInv, TableInv
<1>. QED BY <1>2, <1>6 DEF Living

\* The pids are given out one by one.
LEMMA NextPid ==
  ASSUME [Next]_vars
  PROVE  next_pid' \in {next_pid, next_pid + 1}
<1>1. CASE Next
  <2>1. ASSUME NEW t \in {BootPid, IdlePid}, IdleStep(t) PROVE UNCHANGED next_pid
    BY <2>1
       DEF IdleStep, IdleReap, IdleUnlist, IdleFree, ThreadNext,
           switch_to_kernel
  <2>2. CASE CliStep
    BY <2>2
       DEF CliStep, CliGet, CliCommand, CliExec, command_settimeout, CliWait,
           ThreadNext, switch_to_kernel, AddTask
  <2>3. CASE ProcessStep
    BY <2>3
       DEF ProcessStep, SysFork, AddTask, SysExit, SysStop, SysWaitpid,
           SysUsleep, SysUartRead, SysUartWrite, SysExec, SysOther, PageFault
  <2>4. ASSUME NEW pid \in Processes, TimerSleep(pid) PROVE UNCHANGED next_pid
    BY <2>4 DEF TimerSleep
  <2>5. CASE PageFaultNext \/ TimerQuantum \/ UartReceive \/ UartTransmit
             \/ EndSession \/ TimerMessage \/ MessageBlocks \/ MessageLoops
    BY <2>5
       DEF PageFaultNext, TimerQuantum, UartReceive, UartTransmit, EndSession,
           TimerMessage, MessageBlocks, MessageLoops
  <2>. QED BY <1>1, <2>1, <2>2, <2>3, <2>4, <2>5 DEF Next
<1>2. CASE UNCHANGED vars
  BY <1>2 DEF vars
<1>. QED BY <1>1, <1>2

-----------------------------------------------------------------------------
(* Preservation, action by action.                                         *)

\* The types of the parameters.
LEMMA SignalConstants ==
  /\ Signums \subseteq Nat /\ 0 \notin Signums
  /\ StackFrames \in Nat
  /\ SignalPids \subseteq Processes
BY SignalAssumption

\* The trapframe of a new program and an unused stack have their types.
LEMMA ProgramTypes ==
  ASSUME NEW t \in Processes
  PROVE  Program(t) \in Contexts /\ Unused(t) \in [1..StackFrames -> Contexts]
<1>1. t \in Tasks
  BY Sorts
<1>2. Program(t) \in Contexts
  BY <1>1 DEF Program, Contexts, Codes
<1>. QED BY <1>2 DEF Unused

\* A step that creates no process and leaves the signals alone.
LEMMA UntouchedKeeps ==
  ASSUME WellBehaved, SIInv, SchedInv', [Next]_vars, [SparesStranded]_vars,
         UNCHANGED <<signals, signal_sp, signal_stack, context, interrupted,
                     next_pid>>
  PROVE  SavedInv' /\ NewInv'
<1>1. ASSUME NEW t \in Processes, Living(t)'
      PROVE  FramesSaved(signal_sp[t], signal_stack[t], interrupted[t], context[t])'
  <2>1. next_pid' \in {next_pid, next_pid + 1}
    OBVIOUS
  <2>2. Living(t)
    BY <1>1, <2>1, LivedBefore DEF SIInv
  <2>3. FramesSaved(signal_sp[t], signal_stack[t], interrupted[t], context[t])
    BY <2>2 DEF SIInv, SavedInv
  <2>. QED BY <2>3 DEF FramesSaved
<1>2. ASSUME NEW t \in Processes, state'[t] = "NONE"
      PROVE  signals'[t] = << >>
  <2>1. state[t] = "NONE"
    BY <1>2, Sorts DEF SIInv, SchedInv, TableInv
  <2>. QED BY <2>1 DEF SIInv, NewInv
<1>. QED BY <1>1, <1>2 DEF SavedInv, NewInv

\* The steps that have no part in signals.
LEMMA QuietKeeps ==
  ASSUME WellBehaved, SIInv, SchedInv', [Next]_vars, [SparesStranded]_vars,
         Quiet, UNCHANGED next_pid
  PROVE  SIInv'
<1>1. SavedInv' /\ NewInv'
  BY UntouchedKeeps DEF Quiet, sigvars
<1>2. SignalTypes'
  BY DEF SIInv, SignalTypes, Quiet, sigvars
<1>3. DeliverInv'
  BY DEF Quiet, DeliverInv
<1>. QED BY <1>1, <1>2, <1>3 DEF SIInv

\* The steps that return to a task.
LEMMA ReturnKeeps ==
  ASSUME WellBehaved, SIInv, SchedInv', [Next]_vars, [SparesStranded]_vars,
         Return, UNCHANGED next_pid,
         trap' = "none"
  PROVE  SIInv'
<1>1. SavedInv' /\ NewInv'
  BY UntouchedKeeps DEF Return, sigvars
<1>2. SignalTypes'
  BY DEF SIInv, SignalTypes, Return, sigvars
<1>3. DeliverInv'
  BY DEF Return, DeliverInv
<1>. QED BY <1>1, <1>2, <1>3 DEF SIInv

\* Signals registered or marked for a process that lives.
LEMMA MarkKeeps ==
  ASSUME WellBehaved, SIInv, SchedInv', [Next]_vars, [SparesStranded]_vars,
         ~ delivering,
         NEW t \in Processes, state[t] # "NONE", NEW list \in Seq(Signal),
         signals' = [signals EXCEPT ![t] = list],
         UNCHANGED <<signal_sp, signal_stack, context, interrupted, fresh,
                     delivering, next_pid>>
  PROVE  SIInv'
<1>1. SavedInv'
  <2>1. ASSUME NEW u \in Processes, Living(u)'
        PROVE  FramesSaved(signal_sp[u], signal_stack[u], interrupted[u], context[u])'
    <3>1. next_pid' \in {next_pid, next_pid + 1}
      OBVIOUS
    <3>2. Living(u)
      BY <2>1, <3>1, LivedBefore DEF SIInv
    <3>3. FramesSaved(signal_sp[u], signal_stack[u], interrupted[u], context[u])
      BY <3>2 DEF SIInv, SavedInv
    <3>. QED BY <3>3 DEF FramesSaved
  <2>. QED BY <2>1 DEF SavedInv
<1>2. NewInv'
  <2>1. ASSUME NEW u \in Processes, state'[u] = "NONE"
        PROVE  signals'[u] = << >>
    <3>1. state[u] = "NONE"
      BY <2>1, Sorts DEF SIInv, SchedInv, TableInv
    <3>2. signals'[u] = signals[u]
      BY <3>1 DEF SIInv, SignalTypes
    <3>. QED BY <3>1, <3>2 DEF SIInv, NewInv
  <2>. QED BY <2>1 DEF NewInv
<1>3. SignalTypes'
  BY DEF SIInv, SignalTypes
<1>4. DeliverInv'
  BY DEF DeliverInv
<1>. QED BY <1>1, <1>2, <1>3, <1>4 DEF SIInv

\* A process registers a signal.
LEMMA SysSignalKeeps ==
  ASSUME WellBehaved, SIInv, SchedInv', [Next]_vars, [SparesStranded]_vars,
         NEW signum \in Signums,
         SysSignal(signum)
  PROVE  SIInv'
<1>1. /\ current \in Processes /\ trap = "none" /\ ~ delivering
      /\ UNCHANGED <<signal_sp, signal_stack, context, interrupted, fresh,
                     delivering, next_pid>>
  BY DEF SysSignal, SysOther, Syscall
<1>2. state[current] # "NONE"
  BY <1>1, CallerLives DEF SIInv
<1>3. Append(signals[current], [signum |-> signum, is_pending |-> FALSE])
        \in Seq(Signal)
  <2>1. signals[current] \in Seq(Signal)
    BY <1>1 DEF SIInv, SignalTypes
  <2>2. [signum |-> signum, is_pending |-> FALSE] \in Signal
    BY DEF Signal
  <2>. QED BY <2>1, <2>2
<1>4. signals' = [signals EXCEPT ![current] =
                    Append(signals[current],
                           [signum |-> signum, is_pending |-> FALSE])]
  BY DEF SysSignal
<1>. QED BY <1>1, <1>2, <1>3, <1>4, MarkKeeps

\* The element FirstIn names is in the set.
LEMMA FirstInProperties ==
  ASSUME NEW S, S \subseteq Nat, S # {}
  PROVE  FirstIn(S) \in S
<1>1. \E i \in S : \A j \in S : i <= j
  BY LeastElement
<1>. QED BY <1>1 DEF FirstIn

\* A list with one element replaced.
LEMMA ExceptInSeq ==
  ASSUME NEW A, NEW list \in Seq(A), NEW i \in DOMAIN list, NEW a \in A
  PROVE  /\ [list EXCEPT ![i] = a] \in Seq(A)
         /\ DOMAIN [list EXCEPT ![i] = a] = DOMAIN list
         /\ [list EXCEPT ![i] = a][i] = a
         /\ \A j \in DOMAIN list : j # i => [list EXCEPT ![i] = a][j] = list[j]
<1>1. list \in [1..Len(list) -> A] /\ Len(list) \in Nat
  OBVIOUS
<1>2. [list EXCEPT ![i] = a] \in [1..Len(list) -> A]
  BY <1>1
<1>3. [list EXCEPT ![i] = a] \in Seq(A)
  BY <1>1, <1>2, SeqDef
<1>. QED BY <1>1, <1>2, <1>3

\* A signal is sent to a process.
LEMMA SysKillKeeps ==
  ASSUME WellBehaved, SIInv, SchedInv', [Next]_vars, [SparesStranded]_vars,
         NEW pid \in Targets,
         NEW signum \in Signums, SysKill(pid, signum)
  PROVE  SIInv'
<1>0. ~ delivering /\ UNCHANGED <<signal_sp, signal_stack, context, interrupted,
                                  fresh, delivering, next_pid>>
  BY DEF SysKill, SysOther, SysStop
<1>1. CASE UNCHANGED signals
  <2>1. SavedInv' /\ NewInv'
    BY <1>0, <1>1, UntouchedKeeps
  <2>2. SignalTypes'
    BY <1>0, <1>1 DEF SIInv, SignalTypes
  <2>3. DeliverInv'
    BY <1>0 DEF DeliverInv
  <2>. QED BY <2>1, <2>2, <2>3 DEF SIInv
<1>2. CASE /\ pid \in task_table /\ Registered(pid, signum) # {}
           /\ signals' = [signals EXCEPT
                 ![pid][FirstIn(Registered(pid, signum))].is_pending = TRUE]
  <2>1. pid \in Processes
    BY <1>2 DEF Registered
  <2>2. signals[pid] \in Seq(Signal)
    BY <2>1 DEF SIInv, SignalTypes
  <2>3. PICK i \in DOMAIN signals[pid] : i = FirstIn(Registered(pid, signum))
    <3>1. Registered(pid, signum) \subseteq DOMAIN signals[pid]
      BY DEF Registered
    <3>2. DOMAIN signals[pid] \subseteq Nat
      BY <2>2
    <3>. QED BY <1>2, <3>1, <3>2, FirstInProperties
  <2>4. [signals[pid] EXCEPT ![i].is_pending = TRUE] \in Seq(Signal)
    <3>1. signals[pid][i] \in Signal
      BY <2>2, <2>3
    <3>2. [signals[pid][i] EXCEPT !.is_pending = TRUE] \in Signal
      BY <3>1 DEF Signal
    <3>. QED BY <2>2, <2>3, <3>2, ExceptInSeq
  <2>5. signals' = [signals EXCEPT ![pid] =
                      [signals[pid] EXCEPT ![i].is_pending = TRUE]]
    BY <1>2, <2>3
  <2>6. state[pid] # "NONE"
    BY <1>2 DEF SIInv, SchedInv, TableInv
  <2>. QED BY <1>0, <2>1, <2>4, <2>5, <2>6, MarkKeeps
<1>. QED BY <1>1, <1>2 DEF SysKill

\* A process returns from a handler.
LEMMA SysSigreturnKeeps ==
  ASSUME WellBehaved, SIInv, SchedInv', [Next]_vars, [SparesStranded]_vars,
         SysSigreturn
  PROVE  SIInv'
<1>0. /\ current \in Processes /\ trap = "none" /\ ~ delivering
      /\ UNCHANGED <<current, signals, fresh, delivering, next_pid>>
  BY DEF SysSigreturn, SysOther, Syscall
<1>1. Living(current) /\ StackFrames \in Nat
  BY <1>0, CallerLives, SignalConstants DEF SIInv
<1>2. FramesSaved(signal_sp[current], signal_stack[current], interrupted[current], context[current])
  BY <1>0, <1>1 DEF SIInv, SavedInv
<1>3. PICK n \in 1..StackFrames : n = signal_sp[current]
  BY <1>0, <1>1, <1>2 DEF SIInv, SignalTypes, SysSigreturn, FramesSaved
<1>4. /\ context' = [context EXCEPT ![current] = signal_stack[current][n]]
      /\ signal_sp' = [signal_sp EXCEPT ![current] = n - 1]
      /\ signal_stack' = [signal_stack EXCEPT ![current][n] = Program(current)]
      /\ interrupted' = [interrupted EXCEPT ![current] =
                           SubSeq(interrupted[current], 1,
                                  Len(interrupted[current]) - 1)]
  BY <1>3 DEF SysSigreturn, Front
<1>5. /\ signal_stack[current] \in [1..StackFrames -> Contexts]
      /\ interrupted[current] \in Seq(Resumed)
      /\ Len(interrupted[current]) = n
      /\ \A i \in 1..n :
           /\ Resumes(signal_stack[current][i]) = interrupted[current][i]
           /\ interrupted[current][i].code = 0 <=> i = 1
           /\ signal_stack[current][i].stack = IF i = 1 THEN "kept" ELSE "lost"
  BY <1>0, <1>2, <1>3 DEF SIInv, SignalTypes, FramesSaved
<1>a. /\ signal_stack[current][n].code = 0 <=> n - 1 = 0
      /\ signal_stack[current][n].code = 0 => signal_stack[current][n].stack = "kept"
  <2>1. Resumes(signal_stack[current][n]).code = signal_stack[current][n].code
    BY DEF Resumes
  <2>. QED BY <1>3, <1>5, <2>1
<1>6. SignalTypes'
  <2>1. SubSeq(interrupted[current], 1, Len(interrupted[current]) - 1)
          \in Seq(Resumed)
    BY <1>3, <1>5
  <2>2. [signal_stack[current] EXCEPT ![n] = Program(current)]
          \in [1..StackFrames -> Contexts]
    BY <1>0, <1>5, ProgramTypes
  <2>3. signal_stack[current][n] \in Contexts /\ n - 1 \in 0..(StackFrames + 1)
    BY <1>1, <1>3, <1>5
  <2>. QED BY <1>0, <1>4, <2>1, <2>2, <2>3 DEF SIInv, SignalTypes
<1>7. SavedInv'
  <2>1. ASSUME NEW u \in Processes, Living(u)'
        PROVE  FramesSaved(signal_sp[u], signal_stack[u], interrupted[u], context[u])'
    <3>1. CASE u = current
      <4>1. /\ signal_sp'[u] = n - 1
            /\ signal_stack'[u] = [signal_stack[u] EXCEPT ![n] = Program(u)]
            /\ interrupted'[u] = SubSeq(interrupted[u], 1, n - 1)
            /\ context'[u] = signal_stack[u][n]
        BY <1>0, <1>4, <1>5, <3>1 DEF SIInv, SignalTypes
      <4>2. Len(interrupted'[u]) = n - 1
        BY <1>3, <1>5, <3>1, <4>1
      <4>3. ASSUME NEW i \in 1..(n - 1)
            PROVE  /\ Resumes(signal_stack'[u][i]) = interrupted'[u][i]
                   /\ interrupted'[u][i].code = 0 <=> i = 1
                   /\ signal_stack'[u][i].stack = IF i = 1 THEN "kept" ELSE "lost"
        <5>1. i \in 1..n /\ i # n /\ i \in 1..StackFrames
          BY <1>1, <1>3
        <5>2. interrupted'[u][i] = interrupted[u][i]
          BY <1>3, <1>5, <3>1, <4>1, <5>1
        <5>3. signal_stack'[u][i] = signal_stack[u][i]
          BY <1>5, <3>1, <4>1, <5>1
        <5>. QED BY <1>5, <3>1, <5>1, <5>2, <5>3
      <4>4. n - 1 <= StackFrames
        BY <1>1, <1>3
      <4>. QED BY <1>a, <3>1, <4>1, <4>2, <4>3, <4>4 DEF FramesSaved
    <3>2. CASE u # current
      <4>1. next_pid' \in {next_pid, next_pid + 1}
        BY <1>0
      <4>2. Living(u)
        BY <1>0, <2>1, <4>1, LivedBefore DEF SIInv
      <4>3. FramesSaved(signal_sp[u], signal_stack[u], interrupted[u], context[u])
        BY <4>2 DEF SIInv, SavedInv
      <4>4. /\ signal_sp'[u] = signal_sp[u]
            /\ signal_stack'[u] = signal_stack[u]
            /\ interrupted'[u] = interrupted[u]
            /\ context'[u] = context[u]
        BY <1>4, <3>2 DEF SIInv, SignalTypes
      <4>. QED BY <4>3, <4>4 DEF FramesSaved
    <3>. QED BY <3>1, <3>2
  <2>. QED BY <2>1 DEF SavedInv
<1>8. NewInv'
  <2>1. ASSUME NEW t \in Processes, state'[t] = "NONE"
        PROVE  signals'[t] = << >>
    <3>1. state[t] = "NONE"
      BY <1>0, <2>1, Sorts DEF SIInv, SchedInv, TableInv
    <3>. QED BY <1>0, <3>1 DEF SIInv, NewInv
  <2>. QED BY <2>1 DEF NewInv
<1>9. DeliverInv'
  BY <1>0 DEF DeliverInv
<1>. QED BY <1>6, <1>7, <1>8, <1>9 DEF SIInv

\* A process forks: the child has the stack of its parent.
LEMMA SysForkSignalsKeeps ==
  ASSUME WellBehaved, SIInv, SchedInv', [Next]_vars, [SparesStranded]_vars,
         SysForkSignals
  PROVE  SIInv'
<1>0. /\ current \in Processes /\ trap = "none" /\ ~ delivering
      /\ UNCHANGED <<current, delivering>>
      /\ next_pid' = next_pid + 1 /\ next_pid <= MaxPid
      /\ state' = [state EXCEPT ![next_pid] = "READY"]
  BY DEF SysForkSignals, SysFork, Syscall, AddTask
<1>1. Living(current) /\ current # next_pid
  <2>1. Living(current) /\ current \in Pids
    BY <1>0, CallerLives DEF SIInv
  <2>2. current < next_pid
    BY <2>1 DEF Living, SIInv, SchedInv, TableInv
  <2>. QED BY <2>1, <2>2, Sorts DEF SIInv, SchedInv, TypeOK
<1>2. next_pid \in Processes
  BY <1>0, Sorts DEF SIInv, SchedInv, TypeOK, TableInv, Pids, CliPid
<1>3. /\ signals' = [signals EXCEPT ![next_pid] = signals[current]]
      /\ signal_sp' = [signal_sp EXCEPT ![next_pid] = signal_sp[current]]
      /\ signal_stack' = [signal_stack EXCEPT ![next_pid] = signal_stack[current]]
      /\ context' = [context EXCEPT ![next_pid] = ChildContext(next_pid)]
      /\ interrupted' = [interrupted EXCEPT ![next_pid] = interrupted[current]]
      /\ fresh' = fresh \cup {next_pid}
  BY DEF SysForkSignals
<1>4. ChildContext(next_pid) \in Contexts
  <2>1. context[current] \in Contexts
    BY <1>0 DEF SIInv, SignalTypes
  <2>2. next_pid \in Tasks
    BY <1>2, Sorts
  <2>. QED BY <2>1, <2>2 DEF ChildContext, Contexts
<1>5. SignalTypes'
  BY <1>0, <1>2, <1>3, <1>4 DEF SIInv, SignalTypes
<1>6. SavedInv'
  <2>1. ASSUME NEW u \in Processes, Living(u)'
        PROVE  FramesSaved(signal_sp[u], signal_stack[u], interrupted[u], context[u])'
    <3>1. CASE u = next_pid
      <4>1. FramesSaved(signal_sp[current], signal_stack[current], interrupted[current], context[current])
        BY <1>0, <1>1 DEF SIInv, SavedInv
      <4>2. /\ signal_sp'[u] = signal_sp[current]
            /\ signal_stack'[u] = signal_stack[current]
            /\ interrupted'[u] = interrupted[current]
            /\ context'[u] = [context[current] EXCEPT !.tp = next_pid]
        BY <1>3, <3>1 DEF SIInv, SignalTypes, ChildContext
      <4>3. /\ context'[u].code = context[current].code
            /\ context'[u].stack = context[current].stack
        BY <1>0, <4>2 DEF SIInv, SignalTypes, Contexts
      <4>. QED BY <4>1, <4>2, <4>3 DEF FramesSaved
    <3>2. CASE u # next_pid
      <4>1. next_pid' \in {next_pid, next_pid + 1}
        BY <1>0
      <4>2. Living(u)
        BY <2>1, <3>2, <4>1, LivedBefore DEF SIInv
      <4>3. FramesSaved(signal_sp[u], signal_stack[u], interrupted[u], context[u])
        BY <4>2 DEF SIInv, SavedInv
      <4>4. /\ signal_sp'[u] = signal_sp[u]
            /\ signal_stack'[u] = signal_stack[u]
            /\ interrupted'[u] = interrupted[u]
            /\ context'[u] = context[u]
        BY <1>3, <3>2 DEF SIInv, SignalTypes
      <4>. QED BY <4>3, <4>4 DEF FramesSaved
    <3>. QED BY <3>1, <3>2
  <2>. QED BY <2>1 DEF SavedInv
<1>7. NewInv'
  <2>1. ASSUME NEW t \in Processes, state'[t] = "NONE"
        PROVE  signals'[t] = << >>
    <3>1. t # next_pid /\ state[t] = "NONE"
      BY <1>0, <2>1, Sorts DEF SIInv, SchedInv, TypeOK
    <3>. QED BY <1>3, <3>1 DEF SIInv, NewInv, SignalTypes
  <2>. QED BY <2>1 DEF NewInv
<1>8. DeliverInv'
  BY <1>0 DEF DeliverInv
<1>. QED BY <1>5, <1>6, <1>7, <1>8 DEF SIInv

\* The command line starts a program, with an empty stack.
LEMMA CliExecSignalsKeeps ==
  ASSUME WellBehaved, SIInv, SchedInv', [Next]_vars, [SparesStranded]_vars,
         CliExecSignals
  PROVE  SIInv'
<1>0. /\ ~ delivering /\ UNCHANGED delivering
      /\ next_pid' = next_pid + 1 /\ next_pid <= MaxPid
      /\ state' = [state EXCEPT ![next_pid] = "READY"]
  BY DEF CliExecSignals, CliExec, AddTask
<1>1. next_pid \in Processes
  BY <1>0, Sorts DEF SIInv, SchedInv, TypeOK, TableInv, Pids, CliPid
<1>2. /\ signals' = [signals EXCEPT ![next_pid] = << >>]
      /\ signal_sp' = [signal_sp EXCEPT ![next_pid] = 0]
      /\ context' = [context EXCEPT ![next_pid] = Program(next_pid)]
      /\ signal_stack' = [signal_stack EXCEPT ![next_pid] = Unused(next_pid)]
      /\ interrupted' = [interrupted EXCEPT ![next_pid] = << >>]
      /\ fresh' = fresh \cup {next_pid}
  BY DEF CliExecSignals, Forget
<1>3. StackFrames \in Nat
  BY SignalConstants
<1>4. SignalTypes'
  BY <1>0, <1>1, <1>2, <1>3, ProgramTypes DEF SIInv, SignalTypes
<1>5. SavedInv'
  <2>1. ASSUME NEW u \in Processes, Living(u)'
        PROVE  FramesSaved(signal_sp[u], signal_stack[u], interrupted[u], context[u])'
    <3>1. CASE u = next_pid
      <4>1. /\ signal_sp'[u] = 0 /\ interrupted'[u] = << >>
            /\ context'[u] = Program(u)
        BY <1>2, <3>1 DEF SIInv, SignalTypes
      <4>. QED BY <1>3, <4>1 DEF FramesSaved, Program
    <3>2. CASE u # next_pid
      <4>1. next_pid' \in {next_pid, next_pid + 1}
        BY <1>0
      <4>2. Living(u)
        BY <2>1, <3>2, <4>1, LivedBefore DEF SIInv
      <4>3. FramesSaved(signal_sp[u], signal_stack[u], interrupted[u], context[u])
        BY <4>2 DEF SIInv, SavedInv
      <4>4. /\ signal_sp'[u] = signal_sp[u]
            /\ signal_stack'[u] = signal_stack[u]
            /\ interrupted'[u] = interrupted[u]
            /\ context'[u] = context[u]
        BY <1>2, <3>2 DEF SIInv, SignalTypes
      <4>. QED BY <4>3, <4>4 DEF FramesSaved
    <3>. QED BY <3>1, <3>2
  <2>. QED BY <2>1 DEF SavedInv
<1>6. NewInv'
  <2>1. ASSUME NEW t \in Processes, state'[t] = "NONE"
        PROVE  signals'[t] = << >>
    <3>1. t # next_pid /\ state[t] = "NONE"
      BY <1>0, <2>1, Sorts DEF SIInv, SchedInv, TypeOK
    <3>. QED BY <1>2, <3>1 DEF SIInv, NewInv, SignalTypes
  <2>. QED BY <2>1 DEF NewInv
<1>7. DeliverInv'
  BY <1>0 DEF DeliverInv
<1>. QED BY <1>4, <1>5, <1>6, <1>7 DEF SIInv

\* A process starts another program, with an empty stack.
LEMMA SysExecSignalsKeeps ==
  ASSUME WellBehaved, SIInv, SchedInv', [Next]_vars, [SparesStranded]_vars,
         SysExecSignals
  PROVE  SIInv'
<1>0. /\ current \in Processes /\ ~ delivering
      /\ UNCHANGED <<current, fresh, delivering, next_pid>>
  BY DEF SysExecSignals, SysExec, Syscall
<1>1. /\ signals' = [signals EXCEPT ![current] = << >>]
      /\ signal_sp' = [signal_sp EXCEPT ![current] = 0]
      /\ context' = [context EXCEPT ![current] = Program(current)]
      /\ signal_stack' = [signal_stack EXCEPT ![current] = Unused(current)]
      /\ interrupted' = [interrupted EXCEPT ![current] = << >>]
  BY DEF SysExecSignals, Forget
<1>2. StackFrames \in Nat
  BY SignalConstants
<1>3. SignalTypes'
  BY <1>0, <1>1, <1>2, ProgramTypes DEF SIInv, SignalTypes
<1>4. SavedInv'
  <2>1. ASSUME NEW u \in Processes, Living(u)'
        PROVE  FramesSaved(signal_sp[u], signal_stack[u], interrupted[u], context[u])'
    <3>1. CASE u = current
      <4>1. /\ signal_sp'[u] = 0 /\ interrupted'[u] = << >>
            /\ context'[u] = Program(u)
        BY <1>1, <3>1 DEF SIInv, SignalTypes
      <4>. QED BY <1>2, <4>1 DEF FramesSaved, Program
    <3>2. CASE u # current
      <4>1. next_pid' \in {next_pid, next_pid + 1}
        BY <1>0
      <4>2. Living(u)
        BY <1>0, <2>1, <4>1, LivedBefore DEF SIInv
      <4>3. FramesSaved(signal_sp[u], signal_stack[u], interrupted[u], context[u])
        BY <4>2 DEF SIInv, SavedInv
      <4>4. /\ signal_sp'[u] = signal_sp[u]
            /\ signal_stack'[u] = signal_stack[u]
            /\ interrupted'[u] = interrupted[u]
            /\ context'[u] = context[u]
        BY <1>1, <3>2 DEF SIInv, SignalTypes
      <4>. QED BY <4>3, <4>4 DEF FramesSaved
    <3>. QED BY <3>1, <3>2
  <2>. QED BY <2>1 DEF SavedInv
<1>5. NewInv'
  <2>1. ASSUME NEW t \in Processes, state'[t] = "NONE"
        PROVE  signals'[t] = << >>
    <3>1. state[t] = "NONE"
      BY <1>0, <2>1, Sorts DEF SIInv, SchedInv, TableInv
    <3>. QED BY <1>1, <3>1 DEF SIInv, NewInv, SignalTypes
  <2>. QED BY <2>1 DEF NewInv
<1>6. DeliverInv'
  BY <1>0 DEF DeliverInv
<1>. QED BY <1>3, <1>4, <1>5, <1>6 DEF SIInv

\* The caller of DoKill on itself ends; the others live on if they lived.
LEMMA KilledAlone ==
  ASSUME SchedInv, current \in Processes, trap = "none", DoKill(current),
         SparesStranded
  PROVE  /\ state'[current] = "KILLED"
         /\ \A u \in Processes : Living(u)' => Living(u) /\ u # current
         /\ \A u \in Processes : state'[u] = "NONE" => state[u] = "NONE"
<1>1. current \in Pids /\ state[current] \in {"RUNNING", "READY"}
  BY CallerLives
<1>2. PICK S \in SUBSET Pids : KillOutcome(current, S)
  BY <1>1, KillEffect DEF SchedInv
<1>3. \A u \in S : state[u] = "WAITING" /\ u # current
  BY <1>2 DEF KillOutcome
<1>4. \A u \in Tasks : state'[u] = IF u \in S THEN "READY"
                                   ELSE IF u = current THEN "KILLED"
                                   ELSE state[u]
  BY <1>2 DEF KillOutcome
<1>5. current \in Tasks /\ Processes \subseteq Tasks
  BY <1>1, Sorts
<1>. QED BY <1>3, <1>4, <1>5 DEF Living

\* What is pending for the current task, where a signal is delivered.
LEMMA DeliverFacts ==
  ASSUME SIInv, _signal_handler, Pending(current) # {}
  PROVE  /\ current \in Processes /\ trap = "none" /\ UNCHANGED <<current, next_pid>>
         /\ FirstIn(Pending(current)) \in DOMAIN signals[current]
         /\ FirstIn(Pending(current)) \in Pending(current)
         /\ Cleared(current, FirstIn(Pending(current))) \in Seq(Signal)
         /\ signals[current][FirstIn(Pending(current))].signum \in Signums
<1>1. current \in Processes /\ trap = "none" /\ UNCHANGED <<current, next_pid>>
  BY DEF _signal_handler, SIInv, DeliverInv
<1>2. signals[current] \in Seq(Signal)
  BY <1>1 DEF SIInv, SignalTypes
<1>3. PICK i \in DOMAIN signals[current] :
        i = FirstIn(Pending(current)) /\ i \in Pending(current)
  <2>1. Pending(current) \subseteq DOMAIN signals[current]
    BY DEF Pending
  <2>2. DOMAIN signals[current] \subseteq Nat
    BY <1>2
  <2>. QED BY <2>1, <2>2, FirstInProperties
<1>4. signals[current][i] \in Signal
  BY <1>2
<1>5. [signals[current][i] EXCEPT !.is_pending = FALSE] \in Signal
      /\ signals[current][i].signum \in Signums
  BY <1>4 DEF Signal
<1>6. Cleared(current, i) \in Seq(Signal)
  BY <1>2, <1>5, ExceptInSeq DEF Cleared
<1>. QED BY <1>1, <1>3, <1>5, <1>6

\* Nothing is pending where the process leaves its trap.
LEMMA NothingDeliveredKeeps ==
  ASSUME WellBehaved, SIInv, _signal_handler, Pending(current) = {}
  PROVE  SIInv'
<1>1. UNCHANGED <<vars, sigvars, fresh>> /\ delivering' = FALSE
  BY DEF _signal_handler, vars, queues
<1>2. SchedInv' /\ [Next]_vars /\ [SparesStranded]_vars /\ UNCHANGED next_pid
  BY <1>1, StutterKeeps DEF SIInv, vars
<1>3. SavedInv' /\ NewInv'
  BY <1>1, <1>2, UntouchedKeeps DEF sigvars
<1>4. SignalTypes'
  BY <1>1 DEF SIInv, SignalTypes, sigvars
<1>5. DeliverInv'
  BY <1>1 DEF DeliverInv
<1>. QED BY <1>2, <1>3, <1>4, <1>5 DEF SIInv

\* A signal is delivered: its handler is entered over the context of the trap.
LEMMA DeliveredKeeps ==
  ASSUME WellBehaved, SIInv, _signal_handler, Pending(current) # {},
         signal_sp[current] + 1 <= StackFrames
  PROVE  SIInv'
<1> DEFINE t == current
           i == FirstIn(Pending(current))
           n == signal_sp[current] + 1
<1>0. /\ t \in Processes /\ trap = "none" /\ UNCHANGED <<current, next_pid>>
      /\ Cleared(t, i) \in Seq(Signal) /\ signals[t][i].signum \in Signums
      /\ StackFrames \in Nat
  BY DeliverFacts, SignalConstants
<1>1. Living(t)
  BY <1>0, CallerLives DEF SIInv
<1>2. /\ FramesSaved(signal_sp[t], signal_stack[t], interrupted[t], context[t])
      /\ n \in 1..StackFrames
      /\ signal_sp[t] \in 0..(StackFrames + 1)
      /\ signal_stack[t] \in [1..StackFrames -> Contexts]
      /\ interrupted[t] \in Seq(Resumed) /\ context[t] \in Contexts
  BY <1>0, <1>1 DEF SIInv, SavedInv, SignalTypes
<1>3. /\ signals' = [signals EXCEPT ![t] = Cleared(t, i)]
      /\ signal_sp' = [signal_sp EXCEPT ![t] = n]
      /\ signal_stack' = [signal_stack EXCEPT ![t][n] = Saved(t)]
      /\ interrupted' = [interrupted EXCEPT ![t] =
                           Append(interrupted[t], Resumes(context[t]))]
      /\ context' = [context EXCEPT ![t].code = signals[t][i].signum,
                                    ![t].stack = "kept"]
      /\ UNCHANGED <<vars, fresh>> /\ delivering' = FALSE
  <2>1. ~ (n > StackFrames)
    BY <1>0, <1>2
  <2>. QED BY <2>1 DEF _signal_handler, vars, queues
<1>4. SchedInv' /\ [Next]_vars /\ [SparesStranded]_vars
  BY <1>3, StutterKeeps DEF SIInv
<1>a. /\ Saved(t) \in Contexts
      /\ Resumes(context[t]) \in Resumed
      /\ Resumes(Saved(t)) = Resumes(context[t])
      /\ Resumes(context[t]).code = 0 <=> n = 1
      /\ Saved(t).stack = IF n = 1 THEN "kept" ELSE "lost"
  <2>1. /\ context[t].code = 0 <=> n = 1
        /\ context[t].code = 0 => context[t].stack = "kept"
    BY <1>0, <1>2 DEF FramesSaved
  <2>. HIDE DEF t, i, n
  <2>2. context[t] \in Contexts
    BY <1>2
  <2>. QED BY <2>1, <2>2 DEF Saved, Resumes, Contexts, Resumed
<1>b. signals[t][i].signum # 0
  BY <1>0, SignalConstants
<1>. HIDE DEF t, i, n
<1>5. SignalTypes'
  <2>1. [signal_stack[t] EXCEPT ![n] = Saved(t)]
          \in [1..StackFrames -> Contexts]
    BY <1>2, <1>a
  <2>2. [context[t] EXCEPT !.code = signals[t][i].signum, !.stack = "kept"]
          \in Contexts
    BY <1>0, <1>2 DEF Contexts, Codes
  <2>3. Append(interrupted[t], Resumes(context[t])) \in Seq(Resumed)
    BY <1>2, <1>a
  <2>4. n \in 0..(StackFrames + 1)
    BY <1>0, <1>2
  <2>5. signals' \in [Processes -> Seq(Signal)] /\ fresh' \in SUBSET Processes
    BY <1>0, <1>3 DEF SIInv, SignalTypes
  <2>6. signal_sp' \in [Processes -> 0..(StackFrames + 1)]
    BY <1>0, <1>3, <2>4 DEF SIInv, SignalTypes
  <2>7. signal_stack' \in [Processes -> [1..StackFrames -> Contexts]]
    BY <1>0, <1>3, <2>1 DEF SIInv, SignalTypes
  <2>8. context' \in [Processes -> Contexts]
    BY <1>0, <1>3, <2>2 DEF SIInv, SignalTypes
  <2>9. interrupted' \in [Processes -> Seq(Resumed)]
    BY <1>0, <1>3, <2>3 DEF SIInv, SignalTypes
  <2>. QED BY <1>3, <2>5, <2>6, <2>7, <2>8, <2>9 DEF SignalTypes
<1>6. SavedInv'
  <2>1. ASSUME NEW u \in Processes, Living(u)'
        PROVE  FramesSaved(signal_sp[u], signal_stack[u], interrupted[u], context[u])'
    <3>0. Living(u)
      BY <1>3, <2>1 DEF Living, vars
    <3>1. CASE u = t
      <4>1. /\ signal_sp'[u] = n
            /\ signal_stack'[u] = [signal_stack[t] EXCEPT ![n] = Saved(t)]
            /\ interrupted'[u] = Append(interrupted[t], Resumes(context[t]))
            /\ context'[u] = [context[t] EXCEPT !.code = signals[t][i].signum,
                                                !.stack = "kept"]
        BY <1>3, <3>1 DEF SIInv, SignalTypes
      <4>2. Len(interrupted[t]) = n - 1
            /\ \A j \in 1..(n - 1) :
                 /\ Resumes(signal_stack[t][j]) = interrupted[t][j]
                 /\ interrupted[t][j].code = 0 <=> j = 1
                 /\ signal_stack[t][j].stack = IF j = 1 THEN "kept" ELSE "lost"
        BY <1>2 DEF FramesSaved, n, t
      <4>3. Len(interrupted'[u]) = n /\ n <= StackFrames
        BY <1>0, <1>2, <4>1, <4>2
      <4>4. ASSUME NEW j \in 1..n
            PROVE  /\ Resumes(signal_stack'[u][j]) = interrupted'[u][j]
                   /\ interrupted'[u][j].code = 0 <=> j = 1
                   /\ signal_stack'[u][j].stack = IF j = 1 THEN "kept" ELSE "lost"
        <5>1. CASE j = n
          <6>1. interrupted'[u][j] = Resumes(context[t])
            BY <1>0, <1>2, <1>a, <4>1, <4>2, <5>1
          <6>2. signal_stack'[u][j] = Saved(t)
            BY <1>2, <4>1, <5>1
          <6>. QED BY <1>a, <5>1, <6>1, <6>2
        <5>2. CASE j # n
          <6>1. j \in 1..(n - 1) /\ j \in 1..StackFrames
            BY <1>0, <1>2, <5>2
          <6>2. interrupted'[u][j] = interrupted[t][j]
            BY <1>2, <1>a, <4>1, <4>2, <6>1
          <6>3. signal_stack'[u][j] = signal_stack[t][j]
            BY <1>2, <4>1, <5>2, <6>1
          <6>. QED BY <4>2, <6>1, <6>2, <6>3
        <5>. QED BY <5>1, <5>2
      <4>5. context'[u].code # 0 /\ n # 0
        BY <1>b, <1>2, <4>1 DEF Contexts
      <4>. QED BY <4>1, <4>3, <4>4, <4>5 DEF FramesSaved
    <3>2. CASE u # t
      <4>1. FramesSaved(signal_sp[u], signal_stack[u], interrupted[u], context[u])
        BY <3>0 DEF SIInv, SavedInv
      <4>2. /\ signal_sp'[u] = signal_sp[u]
            /\ signal_stack'[u] = signal_stack[u]
            /\ interrupted'[u] = interrupted[u]
            /\ context'[u] = context[u]
        BY <1>3, <3>2 DEF SIInv, SignalTypes
      <4>. QED BY <4>1, <4>2 DEF FramesSaved
    <3>. QED BY <3>1, <3>2
  <2>. QED BY <2>1 DEF SavedInv
<1>7. NewInv'
  <2>1. ASSUME NEW u \in Processes, state'[u] = "NONE"
        PROVE  signals'[u] = << >>
    <3>1. u # t /\ state[u] = "NONE"
      BY <1>1, <1>3, <2>1 DEF vars, Living
    <3>. QED BY <1>3, <3>1 DEF SIInv, NewInv, SignalTypes
  <2>. QED BY <2>1 DEF NewInv
<1>8. DeliverInv'
  BY <1>3 DEF DeliverInv
<1>. QED BY <1>4, <1>5, <1>6, <1>7, <1>8 DEF SIInv

\* A signal that does not fit on the stack ends the process.
LEMMA OverflowKeeps ==
  ASSUME WellBehaved, SIInv, _signal_handler, Pending(current) # {},
         ~ (signal_sp[current] + 1 <= StackFrames), SparesStranded
  PROVE  SIInv' /\ state'[current] = "KILLED"
<1> DEFINE t == current
           i == FirstIn(Pending(current))
           n == signal_sp[current] + 1
<1>0. /\ t \in Processes /\ trap = "none" /\ UNCHANGED <<current, next_pid>>
      /\ Cleared(t, i) \in Seq(Signal) /\ StackFrames \in Nat
  BY DeliverFacts, SignalConstants
<1>1. /\ Living(t) /\ t \in task_table /\ t \in Pids /\ t # IdlePid
      /\ need_reschedule = FALSE /\ state[t] # "KILLED"
  BY <1>0, CallerLives DEF SIInv
<1>2. /\ signals' = [signals EXCEPT ![t] = Cleared(t, i)]
      /\ signal_sp' = [signal_sp EXCEPT ![t] = n]
      /\ DoKill(t) /\ trap' = "fault"
      /\ UNCHANGED <<signal_stack, context, interrupted, fresh>>
      /\ UNCHANGED <<current, wait_event, task_table, freed, next_pid, sie, pc,
                     node, next, need_reschedule, quantum, timeouts, rx>>
      /\ delivering' = FALSE
  BY DEF _signal_handler
<1>3. SchedInv'
  <2>1. Killable(t)
    BY <1>1 DEF Killable
  <2>2. need_reschedule' = (trap' = "session" /\ t = current)
    BY <1>1, <1>2
  <2>. QED BY <1>0, <1>1, <1>2, <2>1, <2>2, KillKeeps DEF SIInv
<1>4. /\ state'[t] = "KILLED"
      /\ \A u \in Processes : Living(u)' => Living(u) /\ u # t
      /\ \A u \in Processes : state'[u] = "NONE" => state[u] = "NONE"
  BY <1>0, <1>2, KilledAlone DEF SIInv
<1>5. FramesSaved(signal_sp[t], signal_stack[t], interrupted[t], context[t])
  BY <1>0, <1>1 DEF SIInv, SavedInv
<1>6. n \in 0..(StackFrames + 1)
  BY <1>0, <1>5 DEF FramesSaved, SIInv, SignalTypes
<1>. HIDE DEF t, i, n
<1>7. SignalTypes'
  BY <1>0, <1>2, <1>6 DEF SIInv, SignalTypes
<1>8. SavedInv'
  <2>1. ASSUME NEW u \in Processes, Living(u)'
        PROVE  FramesSaved(signal_sp[u], signal_stack[u], interrupted[u], context[u])'
    <3>1. Living(u) /\ u # t
      BY <1>4, <2>1
    <3>2. FramesSaved(signal_sp[u], signal_stack[u], interrupted[u], context[u])
      BY <3>1 DEF SIInv, SavedInv
    <3>3. signal_sp'[u] = signal_sp[u]
      BY <1>2, <3>1 DEF SIInv, SignalTypes
    <3>. QED BY <1>2, <3>2, <3>3 DEF FramesSaved
  <2>. QED BY <2>1 DEF SavedInv
<1>9. NewInv'
  <2>1. ASSUME NEW u \in Processes, state'[u] = "NONE"
        PROVE  signals'[u] = << >>
    <3>1. state[u] = "NONE" /\ u # t
      BY <1>1, <1>4, <2>1 DEF Living
    <3>. QED BY <1>2, <3>1 DEF SIInv, NewInv, SignalTypes
  <2>. QED BY <2>1 DEF NewInv
<1>10. DeliverInv'
  BY <1>2 DEF DeliverInv
<1>11. state'[current] = "KILLED"
  BY <1>4 DEF t
<1>. QED BY <1>3, <1>7, <1>8, <1>9, <1>10, <1>11 DEF SIInv

\* The delivery of a signal leaves no task marked ready outside the queue.
LEMMA DeliveryStrandsNone ==
  ASSUME SIInv, _signal_handler, SparesStranded
  PROVE  NoneStranded
<1>1. CASE UNCHANGED <<state, queues>>
  BY <1>1 DEF NoneStranded, Stranded, queues
<1>2. CASE DoKill(current) /\ Pending(current) # {} /\ trap' = "fault"
  <2>1. current \in Processes /\ trap = "none"
    BY <1>2, DeliverFacts
  <2>2. /\ Killable(current) /\ current \in Pids /\ current # IdlePid
        /\ need_reschedule = FALSE
    BY <2>1, CallerLives DEF SIInv, Killable, Living
  <2>. QED BY <1>2, <2>1, <2>2, KillKeeps DEF SIInv, _signal_handler
<1>. QED BY <1>1, <1>2 DEF _signal_handler

-----------------------------------------------------------------------------
(* The steps put together.                                                 *)

\* The kernel starts in a state of the invariant.
LEMMA InitSIInv == SInit => SIInv
<1>. SUFFICES ASSUME SInit PROVE SIInv
  OBVIOUS
<1>1. SchedInv /\ \A t \in Tasks : t \in Processes => state[t] = "NONE"
  BY InitSchedInv, Sorts DEF SInit, Init, BootPid, IdlePid, CliPid
<1>2. SignalTypes
  <2>1. << >> \in Seq(Signal) /\ << >> \in Seq(Resumed)
    OBVIOUS
  <2>2. 0 \in 0..(StackFrames + 1)
    BY SignalConstants
  <2>3. \A t \in Processes : Program(t) \in Contexts
                             /\ Unused(t) \in [1..StackFrames -> Contexts]
    BY ProgramTypes
  <2>. QED BY <2>1, <2>2, <2>3 DEF SInit, SignalTypes
<1>3. SavedInv
  BY <1>1, Sorts DEF SInit, SavedInv, Living
<1>4. DeliverInv /\ NewInv
  BY DEF SInit, DeliverInv, NewInv
<1>. QED BY <1>1, <1>2, <1>3, <1>4 DEF SIInv

\* The threads keep the invariant.
LEMMA SThreadsKeep ==
  ASSUME WellBehaved, SIInv, SchedInv', [Next]_vars, [SparesStranded]_vars,
         (\E t \in {BootPid, IdlePid} : SIdle(t)) \/ SCli
  PROVE  SIInv'
<1>1. ASSUME NEW t \in KThreads, switch_to_kernel(t), Return PROVE SIInv'
  <2>1. trap' = "none" /\ UNCHANGED next_pid
    BY <1>1 DEF switch_to_kernel, At, InThread
  <2>. QED BY <1>1, <2>1, ReturnKeeps
<1>2. ASSUME NEW t \in {BootPid, IdlePid}, SIdle(t) PROVE SIInv'
  <2>1. CASE Quiet /\ (IdleReap(t) \/ IdleUnlist(t) \/ IdleFree(t)
                         \/ ThreadNext(t, "yield"))
    BY <2>1, QuietKeeps DEF IdleReap, IdleUnlist, IdleFree, ThreadNext
  <2>2. CASE switch_to_kernel(t) /\ Return
    BY <1>1, <2>2 DEF KThreads
  <2>. QED BY <1>2, <2>1, <2>2 DEF SIdle
<1>3. CASE SCli
  <2>1. CASE Quiet /\ (CliGet \/ CliCommand \/ command_settimeout \/ CliWait
                         \/ ThreadNext(CliPid, "next"))
    BY <2>1, QuietKeeps
       DEF CliGet, CliCommand, command_settimeout, CliWait, ThreadNext
  <2>2. CASE switch_to_kernel(CliPid) /\ Return
    BY <1>1, <2>2 DEF KThreads
  <2>3. CASE CliExecSignals
    BY <2>3, CliExecSignalsKeeps
  <2>. QED BY <1>3, <2>1, <2>2, <2>3 DEF SCli
<1>. QED BY <1>2, <1>3

\* The system calls about signals keep the invariant.
LEMMA SProcessKeeps ==
  ASSUME WellBehaved, SIInv, SchedInv', [Next]_vars, [SparesStranded]_vars,
         SProcess
  PROVE  SIInv'
BY SysForkSignalsKeeps, SysExecSignalsKeeps, SysSigreturnKeeps,
   SysSignalKeeps, SysKillKeeps DEF SProcess

\* The ends of traps and the steps without signals keep the invariant.
LEMMA SOthersKeep ==
  ASSUME WellBehaved, SIInv, SchedInv', [Next]_vars, [SparesStranded]_vars,
         SEndSession \/ SPageFaultNext \/ SUnchanged
  PROVE  SIInv'
<1>1. CASE SEndSession
  BY <1>1, ReturnKeeps DEF SEndSession, EndSession
<1>2. CASE SPageFaultNext
  BY <1>2, ReturnKeeps DEF SPageFaultNext, PageFaultNext
<1>3. CASE SUnchanged
  <2>1. Quiet
    BY <1>3 DEF SUnchanged
  <2>2. UNCHANGED next_pid
    BY <1>3
       DEF SUnchanged, SysOther, SysExit, SysUsleep, SysUartRead, SysUartWrite,
           SysWaitpid, PageFault, TimerQuantum, TimerSleep, TimerMessage,
           MessageBlocks, MessageLoops, UartReceive, UartTransmit
  <2>. QED BY <2>1, <2>2, QuietKeeps
<1>. QED BY <1>1, <1>2, <1>3

\* The steps on whose way to where a message is stuck leave signals alone.
LEMMA QuietWhenStuck ==
  ASSUME SNext, Stuck', DeliverInv
  PROVE  Quiet
<1>1. ASSUME NEW t \in KThreads, switch_to_kernel(t) PROVE FALSE
  BY <1>1 DEF switch_to_kernel, At, InThread, Stuck
<1>2. ASSUME NEW t \in {BootPid, IdlePid}, SIdle(t) PROVE Quiet
  BY <1>1, <1>2 DEF SIdle, KThreads
<1>3. CASE SCli
  <2>1. ~ CliExecSignals
    BY DEF CliExecSignals, CliExec, At, InThread, Stuck
  <2>. QED BY <1>1, <1>3, <2>1 DEF SCli, KThreads
<1>4. ASSUME SProcess PROVE FALSE
  BY <1>4
     DEF SProcess, SysForkSignals, SysFork, SysExecSignals, SysExec,
         SysSigreturn, SysSignal, SysKill, SysStop, SysOther, Syscall, Stuck
<1>5. ASSUME _signal_handler PROVE FALSE
  BY <1>5 DEF _signal_handler, DeliverInv, Stuck
<1>6. ASSUME SEndSession \/ SPageFaultNext PROVE FALSE
  BY <1>6 DEF SEndSession, EndSession, SPageFaultNext, PageFaultNext, Stuck
<1>7. CASE SUnchanged
  BY <1>7 DEF SUnchanged
<1>. QED BY <1>2, <1>3, <1>4, <1>5, <1>6, <1>7 DEF SNext

\* A message that is stuck stays so, and signals are left alone.
LEMMA SStaysStuck ==
  ASSUME SignalInv, Stuck, SNext
  PROVE  MessageLoops /\ Stuck' /\ Quiet
<1>1. ~ _signal_handler
  BY DEF SignalInv, DeliverInv, Stuck, _signal_handler
<1>2. MessageLoops
  BY <1>1, ScheduledSteps, OnlyMessageLoops
<1>3. Stuck'
  BY <1>2 DEF MessageLoops, Stuck
<1>. QED BY <1>2, <1>3, QuietWhenStuck DEF SignalInv

\* Where no message gets stuck the invariant of signals is kept.
LEMMA SUnstuckKeeps ==
  ASSUME WellBehaved, SIInv, SNext, [SparesStranded]_vars, ~ Stuck, ~ Stuck'
  PROVE  SIInv'
<1>0. SparesStranded /\ ~ MessageBlocks
  BY SparesUnchanged DEF MessageBlocks, Stuck
<1>1. CASE _signal_handler
  BY <1>0, <1>1, NothingDeliveredKeeps, DeliveredKeeps, OverflowKeeps
<1>2. CASE ~ _signal_handler
  <2>1. [Next]_vars /\ SchedInv'
    BY <1>0, <1>2, ScheduledSteps, SchedKeeps DEF SIInv
  <2>. QED BY <1>2, <2>1, SThreadsKeep, SProcessKeeps, SOthersKeep DEF SNext
<1>. QED BY <1>1, <1>2

\* The invariant of the scheduler is kept.
LEMMA SIInvKeeps ==
  ASSUME WellBehaved, SignalInv, [SNext]_svars, [SparesStranded]_vars
  PROVE  IInv' /\ (Stuck => Stuck')
<1>1. CASE _signal_handler
  <2>1. ~ Stuck /\ SIInv
    BY <1>1 DEF SignalInv, DeliverInv, Stuck, _signal_handler
  <2>2. ~ Stuck'
    BY <1>1, <2>1 DEF _signal_handler, Stuck
  <2>3. SIInv'
    BY <1>1, <2>1, <2>2, SUnstuckKeeps DEF SNext
  <2>4. NoUseAfterFree'
    <3>1. SchedInv'
      BY <2>3 DEF SIInv
    <3>. QED BY <3>1, FreedUnreachable, PTL
  <2>. QED BY <2>1, <2>2, <2>3, <2>4 DEF SIInv, IInv, SchedInv
<1>2. CASE ~ _signal_handler
  <2>1. [Next]_vars
    BY <1>2, ScheduledSteps DEF svars
  <2>. QED BY <2>1, NextKeeps DEF SignalInv
<1>. QED BY <1>1, <1>2

\* The invariant is inductive.
LEMMA SNextKeeps ==
  ASSUME WellBehaved, SignalInv, [SNext]_svars, [SparesStranded]_vars
  PROVE  SignalInv'
<1>0. IInv' /\ (Stuck => Stuck')
  BY SIInvKeeps
<1>1. CASE SNext /\ Stuck'
  <2>1. Quiet
    BY <1>1, QuietWhenStuck DEF SignalInv
  <2>2. SignalTypes' /\ DeliverInv'
    BY <2>1 DEF SignalInv, SignalTypes, DeliverInv, Quiet, sigvars
  <2>. QED BY <1>0, <1>1, <2>2 DEF SignalInv
<1>2. CASE SNext /\ ~ Stuck'
  <2>1. SIInv'
    BY <1>0, <1>2, SUnstuckKeeps DEF SignalInv
  <2>. QED BY <1>0, <2>1 DEF SignalInv, SIInv
<1>3. CASE UNCHANGED svars
  <2>1. SignalTypes' /\ DeliverInv'
    BY <1>3 DEF SignalInv, SignalTypes, DeliverInv, svars, sigvars, vars
  <2>2. Stuck => Stuck'
    BY <1>0
  <2>3. ASSUME SIInv PROVE SIInv'
    <3>1. [Next]_vars /\ SchedInv' /\ UNCHANGED next_pid
      BY <1>3, <2>3, StutterKeeps DEF SIInv, svars, vars
    <3>2. SavedInv' /\ NewInv'
      BY <1>3, <2>3, <3>1, UntouchedKeeps DEF svars, sigvars
    <3>. QED BY <2>1, <3>1, <3>2 DEF SIInv
  <2>. QED BY <1>0, <2>1, <2>2, <2>3 DEF SignalInv
<1>. QED BY <1>1, <1>2, <1>3

\* The invariant holds at first.
LEMMA InitSignalInv == SInit => SignalInv
<1>1. SInit => SIInv /\ IInv
  BY InitSIInv, InitIInv DEF SInit
<1>. QED BY <1>1 DEF SignalInv, SIInv

\* Every reachable state of the kernel with signals satisfies the invariant,
\* and with it that of the scheduler.
THEOREM SInvariance == WellBehaved => (SSpec /\ StrandedSpared => []SignalInv)
<1>. SUFFICES ASSUME WellBehaved PROVE SSpec /\ StrandedSpared => []SignalInv
  OBVIOUS
<1>1. SInit => SignalInv
  BY InitSignalInv
<1>2. SignalInv /\ [SNext]_svars /\ [SparesStranded]_vars => SignalInv'
  BY SNextKeeps
<1>3. StrandedSpared <=> [][SparesStranded]_vars
  BY DEF StrandedSpared, SparesStranded
<1>. QED BY <1>1, <1>2, <1>3, PTL DEF SSpec

\* Without exec no step with signals kills a stranded task either.
LEMMA SNoExecSpares ==
  ASSUME WellBehaved, NoExec, SignalInv, Stuck \/ Stranded = {}, [SNext]_svars
  PROVE  /\ SparesStranded
         /\ Stuck' \/ Stranded' = {}
<1>1. CASE UNCHANGED svars
  BY <1>1, SparesUnchanged DEF svars, vars, queues, Stranded, Stuck
<1>2. CASE Stuck /\ SNext
  BY <1>2, SStaysStuck DEF MessageLoops, SparesStranded, Stranded
<1>3. CASE ~ Stuck /\ SNext
  <2>1. SIInv /\ IInv /\ Stranded = {} /\ SparesStranded
    BY <1>3 DEF SignalInv, SparesStranded
  <2>2. CASE _signal_handler
    BY <2>1, <2>2, DeliveryStrandsNone DEF NoneStranded
  <2>3. CASE ~ _signal_handler
    BY <1>3, <2>1, <2>3, ScheduledSteps, NoExecSpares
  <2>. QED BY <2>1, <2>2, <2>3
<1>. QED BY <1>1, <1>2, <1>3

\* Without exec no process is ever stranded with signals either, until a
\* message gets stuck, so that the theorems below assume nothing then.
THEOREM NothingStrandedWithSignals ==
  WellBehaved /\ NoExec =>
    (SSpec => [](Stuck \/ Stranded = {}) /\ StrandedSpared)
<1>. SUFFICES ASSUME WellBehaved, NoExec
              PROVE  SSpec => [](Stuck \/ Stranded = {}) /\ StrandedSpared
  OBVIOUS
<1>1. SInit => SignalInv /\ (Stuck \/ Stranded = {})
  BY InitSignalInv, NoneStrandedAtStart DEF SInit
<1>2. /\ SignalInv /\ (Stuck \/ Stranded = {}) /\ [SNext]_svars
      => /\ [SparesStranded]_vars
         /\ (SignalInv /\ (Stuck \/ Stranded = {}))'
  BY SNoExecSpares, SNextKeeps
<1>3. StrandedSpared <=> [][SparesStranded]_vars
  BY DEF StrandedSpared, SparesStranded
<1>. QED BY <1>1, <1>2, <1>3, PTL DEF SSpec

\* The signal stack of every living process leads back from each handler to
\* what it interrupted, and to the program with its stack as it was: through
\* nested signals, forks and execs inside handlers and overflows, which end the
\* process.  What nested delivery does not keep is the stack of a handler.
THEOREM FramesAreIntact ==
  WellBehaved => (SSpec /\ StrandedSpared => []FramesIntact)
<1>. SUFFICES ASSUME WellBehaved
              PROVE  SSpec /\ StrandedSpared => []FramesIntact
  OBVIOUS
<1>1. SignalInv => FramesIntact
  <2>. SUFFICES ASSUME SignalInv PROVE FramesIntact
    OBVIOUS
  <2>1. STypeOK
    BY DEF SignalInv, SignalTypes, IInv, STypeOK, Signal, Resumed
  <2>2. ASSUME ~ Stuck, NEW t \in task_table \cap Processes, state[t] # "KILLED"
        PROVE  FramesSaved(signal_sp[t], signal_stack[t], interrupted[t], context[t])
    <3>0. SIInv
      BY <2>2 DEF SignalInv
    <3>1. Living(t)
      BY <2>2, <3>0 DEF Living, SIInv, SchedInv, TableInv
    <3>. QED BY <3>0, <3>1 DEF SIInv, SavedInv
  <2>. QED BY <2>1, <2>2 DEF FramesIntact, FramesSaved
<1>. QED BY <1>1, SInvariance, PTL

\* Steps of the kernel other than those that enter or leave a handler or
\* create a process leave the contexts alone, and those that do leave every
\* other context alone.
LEMMA ContextSteps ==
  ASSUME [SNext]_svars
  PROVE  \/ UNCHANGED context
         \/ SysSigreturn
         \/ SysForkSignals \/ SysExecSignals \/ CliExecSignals
         \/ /\ _signal_handler /\ Pending(current) # {}
            /\ context' = [context EXCEPT
                  ![current].code = signals[current][FirstIn(Pending(current))].signum,
                  ![current].stack = "kept"]
<1>1. ASSUME NEW t \in {BootPid, IdlePid}, SIdle(t) PROVE UNCHANGED context
  BY <1>1 DEF SIdle, Quiet, Return, sigvars
<1>2. CASE SCli
  BY <1>2 DEF SCli, Quiet, Return, sigvars
<1>3. CASE SProcess
  <2>1. ASSUME NEW signum \in Signums, SysSignal(signum) PROVE UNCHANGED context
    BY <2>1 DEF SysSignal
  <2>2. ASSUME NEW pid \in Targets, NEW signum \in Signums, SysKill(pid, signum)
        PROVE UNCHANGED context
    BY <2>2 DEF SysKill
  <2>. QED BY <1>3, <2>1, <2>2 DEF SProcess
<1>4. CASE _signal_handler
  BY <1>4 DEF _signal_handler, sigvars
<1>5. CASE SEndSession \/ SPageFaultNext \/ SUnchanged
  BY <1>5 DEF SEndSession, SPageFaultNext, SUnchanged, Quiet, Return, sigvars
<1>6. CASE UNCHANGED svars
  BY <1>6 DEF svars, sigvars
<1>. QED BY <1>1, <1>2, <1>3, <1>4, <1>5, <1>6 DEF SNext

\* A process goes on as itself after every trap: delivery, sigreturn, fork
\* and the start of a program all leave its own tp in its trapframe, provided
\* a child does not return from the handler it has been forked in.
THEOREM TasksRunAsThemselves ==
  WellBehaved /\ ~ ChildReturns =>
    (SSpec /\ StrandedSpared => []RunsAsItself)
<1>. SUFFICES ASSUME WellBehaved, ~ ChildReturns
              PROVE  SSpec /\ StrandedSpared => []RunsAsItself
  OBVIOUS
<1>1. SInit => RunsAsItself
  BY DEF SInit, RunsAsItself, Program
<1>2. ASSUME SignalInv, RunsAsItself, [SNext]_svars PROVE RunsAsItself'
  <2>0. context \in [Processes -> Contexts] /\ \A t \in Processes : context[t].tp = t
    BY <1>2 DEF SignalInv, SignalTypes, RunsAsItself
  <2>1. CASE UNCHANGED context
    BY <2>0, <2>1 DEF RunsAsItself
  <2>2. CASE SysSigreturn
    <3>1. \E frame \in {signal_stack[current][signal_sp[current]]} :
            frame.tp = current /\ context' = [context EXCEPT ![current] = frame]
      BY <2>2 DEF SysSigreturn
    <3>. QED BY <2>0, <3>1 DEF RunsAsItself
  <2>3. CASE SysForkSignals
    <3>1. context' = [context EXCEPT ![next_pid] =
                        [context[current] EXCEPT !.tp = next_pid]]
          /\ current \in Processes
      BY <2>3 DEF SysForkSignals, ChildContext, SysFork, Syscall
    <3>2. [context[current] EXCEPT !.tp = next_pid].tp = next_pid
      BY <2>0, <3>1 DEF Contexts
    <3>. QED BY <2>0, <3>1, <3>2 DEF RunsAsItself
  <2>4. CASE CliExecSignals
    <3>1. context' = [context EXCEPT ![next_pid] = Program(next_pid)]
      BY <2>4 DEF CliExecSignals, Forget
    <3>. QED BY <2>0, <3>1 DEF RunsAsItself, Program
  <2>6. CASE SysExecSignals
    <3>1. context' = [context EXCEPT ![current] = Program(current)]
      BY <2>6 DEF SysExecSignals, Forget
    <3>. QED BY <2>0, <3>1 DEF RunsAsItself, Program
  <2>5. ASSUME NEW signum,
               context' = [context EXCEPT ![current].code = signum,
                                          ![current].stack = "kept"]
        PROVE  RunsAsItself'
    <3>1. ASSUME NEW t \in Processes PROVE context'[t].tp = t
      <4>1. context[t] \in Contexts
        BY <2>0
      <4>2. [context[t] EXCEPT !.code = signum, !.stack = "kept"].tp = t
        BY <2>0, <4>1 DEF Contexts
      <4>. QED BY <2>0, <2>5, <4>2
    <3>. QED BY <3>1 DEF RunsAsItself
  <2>. QED BY <1>2, <2>1, <2>2, <2>3, <2>4, <2>5, <2>6, ContextSteps
<1>. QED BY <1>1, <1>2, SInvariance, PTL DEF SSpec

\* No task stands in two queues with signals either: a process killed by the
\* overflow of its signal stack included.
THEOREM QueuesStayDisjoint ==
  WellBehaved => (SSpec /\ StrandedSpared => []QueuedOnce)
<1>. SUFFICES ASSUME WellBehaved
              PROVE  SSpec /\ StrandedSpared => []QueuedOnce
  OBVIOUS
<1>1. SignalInv => QueuedOnce
  BY DEF SignalInv, SIInv, SchedInv, QueueInv, QueuedOnce
<1>. QED BY <1>1, SInvariance, PTL

-----------------------------------------------------------------------------
(* Signals are kept.                                                       *)

\* The signal i that was pending for t still is, or t has entered its handler
\* over the context it had, or has dropped its signals, or has ended.
KeptFor(t, i) ==
  \/ i \in DOMAIN signals'[t] /\ signals'[t][i].is_pending
  \/ /\ interrupted'[t] = Append(interrupted[t], Resumes(context[t]))
     /\ context'[t].code = signals[t][i].signum
  \/ signals'[t] = << >>
  \/ state'[t] = "KILLED"

\* Registering a signal, or marking one, keeps those that are pending.
LEMMA MarkingKeeps ==
  ASSUME SIInv, NEW s \in Processes, NEW list \in Seq(Signal),
         signals' = [signals EXCEPT ![s] = list],
         \A i \in Pending(s) : i \in DOMAIN list /\ list[i].is_pending,
         NEW t \in Processes, NEW i \in Pending(t)
  PROVE  KeptFor(t, i)
<1>1. i \in DOMAIN signals[t] /\ signals[t][i].is_pending
  BY DEF Pending
<1>2. signals' [t] = IF t = s THEN list ELSE signals[t]
  BY DEF SIInv, SignalTypes
<1>. QED BY <1>1, <1>2 DEF KeptFor

\* The system call signal keeps the pending signals.
LEMMA SignalKeepsPending ==
  ASSUME SIInv, NEW signum \in Signums, SysSignal(signum),
         NEW t \in Processes, NEW i \in Pending(t)
  PROVE  KeptFor(t, i)
<1> DEFINE r == [signum |-> signum, is_pending |-> FALSE]
           list == Append(signals[current], r)
<1>1. current \in Processes /\ signals' = [signals EXCEPT ![current] = list]
  BY DEF SysSignal, SysOther, Syscall
<1>2. signals[current] \in Seq(Signal) /\ r \in Signal
  BY <1>1 DEF SIInv, SignalTypes, Signal
<1>. HIDE DEF r
<1>3. list \in Seq(Signal)
  BY <1>2
<1>4. ASSUME NEW j \in Pending(current)
      PROVE  j \in DOMAIN list /\ list[j].is_pending
  <2>1. j \in 1..Len(signals[current]) /\ signals[current][j].is_pending
    BY <1>2 DEF Pending
  <2>2. j \in 1..Len(list) /\ list[j] = signals[current][j]
    BY <1>2, <2>1
  <2>. QED BY <1>3, <2>1, <2>2
<1>. HIDE DEF list
<1>. QED BY <1>1, <1>3, <1>4, MarkingKeeps

\* The system call kill keeps the pending signals.
LEMMA KillKeepsPending ==
  ASSUME SIInv, NEW pid \in Targets, NEW signum \in Signums,
         SysKill(pid, signum), NEW t \in Processes, NEW i \in Pending(t)
  PROVE  KeptFor(t, i)
<1>1. CASE UNCHANGED signals
  BY <1>1 DEF KeptFor, Pending
<1>2. CASE /\ Registered(pid, signum) # {}
           /\ signals' = [signals EXCEPT
                 ![pid][FirstIn(Registered(pid, signum))].is_pending = TRUE]
  <2>1. pid \in Processes
    BY <1>2 DEF Registered
  <2>2. signals[pid] \in Seq(Signal)
    BY <2>1 DEF SIInv, SignalTypes
  <2>3. PICK k \in DOMAIN signals[pid] : k = FirstIn(Registered(pid, signum))
    <3>1. Registered(pid, signum) \subseteq DOMAIN signals[pid]
      BY DEF Registered
    <3>2. DOMAIN signals[pid] \subseteq Nat
      BY <2>2
    <3>. QED BY <1>2, <3>1, <3>2, FirstInProperties
  <2> DEFINE r == [signals[pid][k] EXCEPT !.is_pending = TRUE]
             list == [signals[pid] EXCEPT ![k] = r]
  <2>4. r \in Signal /\ r.is_pending
    <3>1. signals[pid][k] \in Signal
      BY <2>2
    <3>. QED BY <3>1 DEF Signal
  <2>5. signals' = [signals EXCEPT ![pid] = list]
    BY <1>2, <2>3
  <2>. HIDE DEF r
  <2>6. /\ list \in Seq(Signal) /\ DOMAIN list = DOMAIN signals[pid]
        /\ list[k] = r
        /\ \A j \in DOMAIN signals[pid] : j # k => list[j] = signals[pid][j]
    BY <2>2, <2>4, ExceptInSeq
  <2>7. \A j \in Pending(pid) : j \in DOMAIN list /\ list[j].is_pending
    BY <2>4, <2>6 DEF Pending
  <2>. HIDE DEF list
  <2>. QED BY <2>1, <2>5, <2>6, <2>7, MarkingKeeps
<1>. QED BY <1>1, <1>2 DEF SysKill

\* A new process, forked or started by the command line, had none; the others
\* keep theirs.
LEMMA CreationKeepsPending ==
  ASSUME SIInv, SysForkSignals \/ CliExecSignals,
         NEW t \in Processes, NEW i \in Pending(t)
  PROVE  KeptFor(t, i)
<1>1. i \in DOMAIN signals[t] /\ signals[t][i].is_pending
  BY DEF Pending
<1>2. next_pid \in Processes
  BY Sorts
     DEF SysForkSignals, CliExecSignals, SysFork, CliExec, SIInv, SchedInv, TypeOK,
         TableInv, Pids, CliPid
<1>3. state[next_pid] = "NONE"
  BY <1>2, Sorts DEF SIInv, SchedInv, TableInv
<1>4. t # next_pid
  BY <1>1, <1>2, <1>3 DEF SIInv, NewInv
<1>5. signals'[t] = signals[t]
  BY <1>4 DEF SysForkSignals, CliExecSignals, Forget, SIInv, SignalTypes
<1>. QED BY <1>1, <1>5 DEF KeptFor

\* exec drops the signals of the process that calls it, and of no other.
LEMMA ExecKeepsPending ==
  ASSUME SIInv, SysExecSignals, NEW t \in Processes, NEW i \in Pending(t)
  PROVE  KeptFor(t, i)
<1>1. i \in DOMAIN signals[t] /\ signals[t][i].is_pending
  BY DEF Pending
<1>2. signals'[t] = IF t = current THEN << >> ELSE signals[t]
  BY DEF SysExecSignals, Forget, SIInv, SignalTypes
<1>. QED BY <1>1, <1>2 DEF KeptFor

\* The delivery of one signal keeps the others pending.
LEMMA DeliveryKeepsPending ==
  ASSUME WellBehaved, SIInv, _signal_handler, SparesStranded, NEW t \in Processes,
         NEW i \in Pending(t)
  PROVE  KeptFor(t, i)
<1>1. i \in DOMAIN signals[t] /\ signals[t][i].is_pending
  BY DEF Pending
<1>2. CASE Pending(current) = {}
  <2>1. UNCHANGED signals
    BY <1>2 DEF _signal_handler, sigvars
  <2>. QED BY <1>1, <2>1 DEF KeptFor
<1>3. CASE Pending(current) # {}
  <2>1. PICK k \in DOMAIN signals[current] : k = FirstIn(Pending(current))
    BY <1>3, DeliverFacts
  <2>2. /\ current \in Processes
        /\ signals' = [signals EXCEPT ![current] = Cleared(current, k)]
    BY <1>3, <2>1, DeliverFacts DEF _signal_handler
  <2>3. CASE t # current
    <3>1. signals'[t] = signals[t]
      BY <2>2, <2>3 DEF SIInv, SignalTypes
    <3>. QED BY <1>1, <3>1 DEF KeptFor
  <2>4. CASE t = current /\ i # k
    <3>1. signals[t] \in Seq(Signal) /\ signals'[t] = Cleared(t, k)
      BY <2>2, <2>4 DEF SIInv, SignalTypes
    <3>2. /\ DOMAIN Cleared(t, k) = DOMAIN signals[t]
          /\ Cleared(t, k)[i] = signals[t][i]
      BY <1>1, <2>4, <3>1 DEF Cleared
    <3>. QED BY <1>1, <3>1, <3>2 DEF KeptFor
  <2>5. CASE t = current /\ i = k /\ signal_sp[current] + 1 <= StackFrames
    <3>0. ~ (signal_sp[current] + 1 > StackFrames)
      BY <2>2, <2>5, SignalConstants DEF SIInv, SignalTypes
    <3>1. /\ interrupted' = [interrupted EXCEPT ![t] =
                               Append(interrupted[t], Resumes(context[t]))]
          /\ context' = [context EXCEPT ![t].code = signals[t][i].signum,
                                        ![t].stack = "kept"]
      BY <1>3, <2>1, <2>5, <3>0 DEF _signal_handler
    <3>2. interrupted'[t] = Append(interrupted[t], Resumes(context[t]))
      BY <3>1 DEF SIInv, SignalTypes
    <3>3. context'[t].code = signals[t][i].signum
      BY <3>1 DEF SIInv, SignalTypes, Contexts
    <3>. QED BY <3>2, <3>3 DEF KeptFor
  <2>6. CASE t = current /\ ~ (signal_sp[current] + 1 <= StackFrames)
    BY <1>3, <2>6, OverflowKeeps DEF KeptFor
  <2>. QED BY <2>3, <2>4, <2>5, <2>6
<1>. QED BY <1>2, <1>3

\* The steps that leave the signals of every process alone.
LEMMA OtherSteps ==
  ASSUME [SNext]_svars
  PROVE  \/ UNCHANGED signals
         \/ SysForkSignals \/ CliExecSignals \/ SysExecSignals
         \/ _signal_handler
         \/ \E signum \in Signums : SysSignal(signum)
         \/ \E pid \in Targets, signum \in Signums : SysKill(pid, signum)
<1>1. ASSUME NEW t \in {BootPid, IdlePid}, SIdle(t) PROVE UNCHANGED signals
  BY <1>1 DEF SIdle, Quiet, Return, sigvars
<1>2. CASE SCli
  BY <1>2 DEF SCli, Quiet, Return, sigvars
<1>3. CASE SProcess
  BY <1>3 DEF SProcess, SysSigreturn
<1>4. CASE SEndSession \/ SPageFaultNext \/ SUnchanged
  BY <1>4 DEF SEndSession, SPageFaultNext, SUnchanged, Quiet, Return, sigvars
<1>5. CASE UNCHANGED svars
  BY <1>5 DEF svars, sigvars
<1>. QED BY <1>1, <1>2, <1>3, <1>4, <1>5 DEF SNext

\* A pending signal is never lost: it stays pending until its own handler is
\* entered, the process calls exec or it ends, whatever signals the process
\* and the others send and register, and whatever else is delivered first.
THEOREM SignalsAreKept ==
  WellBehaved => (SSpec /\ StrandedSpared => SignalKept)
<1>. SUFFICES ASSUME WellBehaved PROVE SSpec /\ StrandedSpared => SignalKept
  OBVIOUS
<1>1. ASSUME SignalInv, [SNext]_svars, [SparesStranded]_vars,
             NEW t \in Processes, NEW i \in Pending(t)
      PROVE  KeptFor(t, i)
  <2>0. SparesStranded
    BY <1>1, SparesUnchanged
  <2>1. CASE UNCHANGED signals
    BY <2>1 DEF KeptFor, Pending
  <2>2. Stuck => UNCHANGED signals
    BY <1>1, SStaysStuck DEF Quiet, svars, sigvars
  <2>3. ~ Stuck => SIInv
    BY <1>1 DEF SignalInv
  <2>. QED BY <1>1, <2>0, <2>1, <2>2, <2>3, OtherSteps, CreationKeepsPending,
           ExecKeepsPending, DeliveryKeepsPending, SignalKeepsPending,
           KillKeepsPending
<1>2. SignalInv /\ [SNext]_svars /\ [SparesStranded]_vars =>
        [\A t \in Processes : \A i \in Pending(t) :
           \/ i \in DOMAIN signals'[t] /\ signals'[t][i].is_pending
           \/ /\ interrupted'[t] = Append(interrupted[t], Resumes(context[t]))
              /\ context'[t].code = signals[t][i].signum
           \/ signals'[t] = << >>
           \/ state'[t] = "KILLED"]_svars
  BY <1>1 DEF KeptFor
<1>3. StrandedSpared <=> [][SparesStranded]_vars
  BY DEF StrandedSpared, SparesStranded
<1>. QED BY <1>2, <1>3, SInvariance, PTL DEF SSpec, SignalKept
=============================================================================
