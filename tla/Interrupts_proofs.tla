-------------------------- MODULE Interrupts_proofs --------------------------
(***************************************************************************)
(* The safety properties of Interrupts hold for every length of timeouts   *)
(* and time slices, every number of timeouts and every number of UART      *)
(* requests, as long as the buffer of interrupt tasks has six slots more   *)
(* than there are requests before the tasks are all done.                  *)
(***************************************************************************)
EXTENDS Interrupts, Queues_proofs

\* What the theorems assume of the buffer: a slot for each request, and six
\* for the request that was there before, the system call, three timer tasks
\* and the slot that is taken next.
Enough == BufferSize >= MaxBurst + 6

-----------------------------------------------------------------------------
(* The inductive invariant.                                                *)

\* The handler of the task at position i of the queue.
Handler(i) == tasks_buffer[tasks_queue[i]]

\* How many timer interrupts may come before the timer is set again.
Armed == IF timer = Far THEN 0 ELSE 1

\* A system call is still to be executed, or is being executed.
CallDue ==
  pc = "syscall" \/ \E i \in DOMAIN tasks_queue : Handler(i) = "syscall"

\* The queue holds tasks to be called, and of system calls and external
\* interrupts one at a time: a system call is made by a program, not by
\* a task, and the PLIC hands its interrupt out once.
OneEach ==
  /\ \A i \in DOMAIN tasks_queue : Handler(i) \in Handlers
  /\ \A i, j \in DOMAIN tasks_queue :
       Handler(i) = Handler(j) /\ Handler(i) # "timer" => i = j
  /\ \A i \in DOMAIN tasks_queue :
       /\ Handler(i) = "syscall" => pc \in {"loop", "external"}
       /\ Handler(i) = "external" => pc # "external"

\* The timer tasks there may be: each needs the timer to be set once, which is
\* done at the end of a session, in a program, by a system call and by
\* a timer task.
MaxTimers ==
  CASE pc = "run" -> 1
    [] pc = "leave" -> 1 - Armed
    [] pc \in {"timer", "expire", "message"} -> 2 - Armed
    [] OTHER -> 3 - Armed - (IF CallDue THEN 1 ELSE 0)

\* Timer tasks stand at the end of the queue; the bound is on those from any
\* one of them on.
TimersFew ==
  \A i \in DOMAIN tasks_queue :
    Handler(i) = "timer" => Len(tasks_queue) - i + 1 <= MaxTimers

\* How many tasks have been added since the one in slot s, when the slot at
\* next is the next one.
Age(s, next) == IF s < next THEN next - 1 - s ELSE BufferSize + next - 1 - s

\* How many tasks have been added since the queue was last empty that a timer
\* task may have had to let pass: those of the UART and of the system call.
Overtakers == burst + (IF irq /\ ~ claimed THEN 0 ELSE 1)
               + (IF pc \in {"run", "leave"} THEN 0 ELSE 1)

\* What was added after a task stands behind it, or has overtaken it.
SlotsKept ==
  \A i \in DOMAIN tasks_queue :
    Age(tasks_queue[i], tasks_buffer_head)
      <= Len(tasks_queue) - i + (IF Handler(i) = "timer" THEN Overtakers ELSE 0)

\* The two halves of QueuesOrdered.
TasksSorted ==
  \A i, j \in DOMAIN tasks_queue :
    i < j => priority(Handler(i)) <= priority(Handler(j))
TimeoutsSorted ==
  \A i, j \in DOMAIN timeout_queue :
    i < j => timeout_queue[i].left <= timeout_queue[j].left

\* What is said of the queue of tasks ...
TasksInv ==
  /\ IsInjective(tasks_queue)
  /\ TasksSorted
  /\ OneEach
  /\ TimersFew
  /\ SlotsKept
  /\ ClaimHeld

\* ... and of the timeouts.
TimeoutsInv ==
  /\ TimeoutsSorted
  /\ TimerArmed
  /\ OneSlice

IInv == TypeOK /\ TasksInv /\ TimeoutsInv

-----------------------------------------------------------------------------
(* The two sorted lists.                                                   *)

\* InsertSorted puts its element at the first of the stops, or at the end.
LEMMA InsertSortedPlace ==
  ASSUME NEW A, NEW list \in Seq(A), NEW x \in A, NEW stops \in SUBSET DOMAIN list
  PROVE  \E p \in 1..(Len(list) + 1) :
           /\ p \in stops \/ (stops = {} /\ p = Len(list) + 1)
           /\ \A k \in stops : p <= k
           /\ InsertSorted(list, x, stops) \in Seq(A)
           /\ Len(InsertSorted(list, x, stops)) = Len(list) + 1
           /\ \A j \in 1..(Len(list) + 1) :
                InsertSorted(list, x, stops)[j] =
                  IF j < p THEN list[j] ELSE IF j = p THEN x ELSE list[j-1]
<1>. DEFINE i == IF stops = {} THEN Len(list) + 1
                 ELSE CHOOSE k \in stops : \A m \in stops : k <= m
<1>1. DOMAIN list = 1..Len(list) /\ Len(list) \in Nat
  BY LenProperties
<1>2. /\ i \in stops \/ (stops = {} /\ i = Len(list) + 1)
      /\ \A k \in stops : i <= k
  <2>1. CASE stops = {}
    BY <2>1
  <2>2. CASE stops # {}
    <3>1. stops \in SUBSET Nat
      BY <1>1
    <3>2. \E k \in stops : \A m \in stops : k <= m
      BY <2>2, <3>1, LeastElement
    <3>. QED BY <2>2, <3>2
  <2>. QED BY <2>1, <2>2
<1>3. InsertSorted(list, x, stops)
        = Splice(list, x, i)
  BY Zenon DEF InsertSorted, Splice
<1>. HIDE DEF i
<1>. DEFINE r == Splice(list, x, i)
<1>4. i \in 1..(Len(list) + 1)
  BY <1>1, <1>2
<1>. HIDE DEF r
<1>5. /\ r \in Seq(A)
      /\ Len(r) = Len(list) + 1
      /\ \A j \in 1..(Len(list) + 1) :
           r[j] = IF j < i THEN list[j] ELSE IF j = i THEN x ELSE list[j-1]
  BY <1>4, SpliceProperties DEF r
<1>. QED BY <1>2, <1>3, <1>4, <1>5 DEF r

\* A timeout that is added finds its place by its target time.
LEMMA TimeoutInsert ==
  ASSUME NEW entries \in Seq(Timeouts), NEW entry \in Timeouts,
         \A i, j \in DOMAIN entries : i < j => entries[i].left <= entries[j].left,
         NEW r, r = _insert_to_timeouts_queue(entries, entry), TicksAssumption
  PROVE  /\ r \in Seq(Timeouts)
         /\ r # << >>
         /\ Range(r) = Range(entries) \cup {entry}
         /\ \A i, j \in DOMAIN r : i < j => r[i].left <= r[j].left
<1>. DEFINE n == Len(entries)
            stops == {i \in DOMAIN entries : entry.left < entries[i].left}
<1>0. /\ n \in Nat /\ DOMAIN entries = 1..n
      /\ \A i \in 1..n : entries[i] \in Timeouts
  BY LenProperties
<1>1. PICK p \in 1..(n + 1) :
        /\ p \in stops \/ (stops = {} /\ p = n + 1)
        /\ \A k \in stops : p <= k
        /\ r \in Seq(Timeouts)
        /\ Len(r) = n + 1
        /\ \A j \in 1..(n + 1) :
             r[j] = IF j < p THEN entries[j] ELSE IF j = p THEN entry ELSE entries[j-1]
  <2>1. stops \in SUBSET DOMAIN entries
    OBVIOUS
  <2>2. r = InsertSorted(entries, entry, stops)
    BY DEF _insert_to_timeouts_queue
  <2>. HIDE DEF stops
  <2>. QED BY <2>1, <2>2, InsertSortedPlace
<1>2. DOMAIN r = 1..(n+1)
  BY <1>1, LenProperties
<1>3. Range(r) = Range(entries) \cup {entry}
  <2>1. p \in 1..(Len(entries) + 1)
    OBVIOUS
  <2>. HIDE DEF stops
  <2>. QED BY <1>1, <2>1, SpliceRange
<1>4. r # << >>
  BY <1>0, <1>1
<1>5. \A e \in Timeouts : e.left \in Int
  BY TicksAssumption DEF Timeouts
<1>6. \A j \in 1..n : j < p => entries[j].left <= entry.left
  <2>1. ASSUME NEW j \in 1..n, j < p PROVE j \notin stops
    BY <1>0, <1>1, <2>1
  <2>. QED BY <1>0, <1>5, <2>1
<1>7. \A j \in 1..n : p <= j => entry.left <= entries[j].left
  <2>1. ASSUME NEW j \in 1..n, p <= j PROVE entry.left <= entries[j].left
    <3>1. p \in stops
      BY <1>0, <1>1, <2>1
    <3>2. entry.left < entries[p].left /\ p \in 1..n
      BY <1>0, <3>1
    <3>3. entries[p].left <= entries[j].left
      BY <1>0, <1>5, <2>1, <3>2
    <3>. QED BY <1>0, <1>5, <3>2, <3>3
  <2>. QED BY <2>1
<1>. HIDE DEF stops, n
<1>8. ASSUME NEW i \in 1..(n+1), NEW j \in 1..(n+1), i < j
      PROVE  r[i].left <= r[j].left
  <2>1. CASE j < p
    <3>1. i \in 1..n /\ j \in 1..n /\ r[i] = entries[i] /\ r[j] = entries[j]
      BY <1>0, <1>1, <1>8, <2>1
    <3>. QED BY <1>0, <1>8, <3>1
  <2>2. CASE j = p
    <3>1. i \in 1..n /\ r[i] = entries[i] /\ r[j] = entry
      BY <1>0, <1>1, <1>8, <2>2
    <3>. QED BY <1>6, <1>8, <2>2, <3>1
  <2>3. CASE j > p /\ i = p
    <3>1. j - 1 \in 1..n /\ p <= j - 1 /\ r[j] = entries[j-1] /\ r[i] = entry
      BY <1>0, <1>1, <1>8, <2>3
    <3>. QED BY <1>7, <3>1
  <2>4. CASE j > p /\ i < p
    <3>1. /\ j - 1 \in 1..n /\ p <= j - 1 /\ r[j] = entries[j-1]
          /\ i \in 1..n /\ r[i] = entries[i]
      BY <1>0, <1>1, <1>8, <2>4
    <3>2. i < j - 1
      BY <1>0, <1>1, <1>8, <2>4
    <3>. QED BY <1>0, <3>1, <3>2
  <2>5. CASE j > p /\ i > p
    <3>1. /\ j - 1 \in 1..n /\ r[j] = entries[j-1]
          /\ i - 1 \in 1..n /\ r[i] = entries[i-1] /\ i - 1 < j - 1
      BY <1>0, <1>1, <1>8, <2>5
    <3>. QED BY <1>0, <3>1
  <2>. QED BY <1>0, <1>1, <2>1, <2>2, <2>3, <2>4, <2>5
<1>. QED BY <1>1, <1>2, <1>3, <1>4, <1>8

\* Clearing a timeout takes out the entries with its id and leaves the others
\* in their order.
LEMMA TimeoutWithout ==
  ASSUME NEW entries \in Seq(Timeouts), NEW id,
         \A i, j \in DOMAIN entries : i < j => entries[i].left <= entries[j].left,
         NEW r, r = Without(entries, id), TicksAssumption
  PROVE  /\ r \in Seq(Timeouts)
         /\ Range(r) = {e \in Range(entries) : e.id # id}
         /\ \A i, j \in DOMAIN r : i < j => r[i].left <= r[j].left
<1>. DEFINE S == {e \in Range(entries) : e.id # id}
            key == [e \in Timeouts |-> e.left]
<1>1. r = Keep(entries, S)
  BY DEF Without
<1>2. key \in [Timeouts -> Int]
  BY TicksAssumption DEF Timeouts
<1>3. DOMAIN entries = 1..Len(entries) /\ \A i \in DOMAIN entries : entries[i] \in Timeouts
  BY LenProperties
<1>4. \A i, j \in DOMAIN entries : i < j => key[entries[i]] <= key[entries[j]]
  BY <1>3
<1>5. S = Range(entries) \cap S
  OBVIOUS
<1>. HIDE DEF S, key
<1>6. r \in Seq(Timeouts) /\ Range(r) = S
  <2>1. Keep(entries, S) \in Seq(Timeouts) /\ Range(Keep(entries, S)) = Range(entries) \cap S
    BY KeepProperties
  <2>. QED BY <1>1, <1>5, <2>1
<1>7. \A i, j \in DOMAIN r : i < j => key[r[i]] <= key[r[j]]
  BY <1>1, <1>2, <1>4, KeepMonotone
<1>8. \A i \in DOMAIN r : r[i] \in Timeouts
  BY <1>6, LenProperties
<1>9. \A i, j \in DOMAIN r : i < j => r[i].left <= r[j].left
  BY <1>7, <1>8 DEF key
<1>. QED BY <1>6, <1>9 DEF S

-----------------------------------------------------------------------------
(* The queue of interrupt tasks.                                           *)

\* Facts about the constants and the queue used throughout.
LEMMA Typing ==
  ASSUME TypeOK
  PROVE  /\ BufferSize \in Nat \ {0} /\ MaxBurst \in Nat /\ MaxTicks \in Nat
         /\ Far \in Nat /\ Far # 0 /\ timer \in Int /\ burst \in Nat
         /\ tasks_queue \in Seq(Slots)
         /\ Len(tasks_queue) \in Nat
         /\ DOMAIN tasks_queue = 1..Len(tasks_queue)
         /\ \A i \in 1..Len(tasks_queue) : tasks_queue[i] \in Slots
         /\ \A s \in Slots : s \in Int /\ 0 <= s /\ s < BufferSize
         /\ tasks_buffer_head \in Slots
<1>1. /\ Len(tasks_queue) \in Nat
      /\ DOMAIN tasks_queue = 1..Len(tasks_queue)
      /\ \A i \in 1..Len(tasks_queue) : tasks_queue[i] \in Slots
  BY LenProperties DEF TypeOK
<1>. QED BY <1>1, BufferAssumption, BurstAssumption, TicksAssumption
         DEF TypeOK, Slots, Far

\* No slot of the queue is as old as the buffer is long, so that the slot
\* taken next is in no use.
LEMMA SlotFree ==
  ASSUME TypeOK, TasksInv, Enough
  PROVE  /\ \A i \in DOMAIN tasks_queue : Age(tasks_queue[i], tasks_buffer_head) <= BufferSize - 2
         /\ tasks_buffer_head \notin Range(tasks_queue)
<1>. DEFINE n == Len(tasks_queue)
<1>0. /\ BufferSize \in Nat \ {0} /\ MaxBurst \in Nat
      /\ n \in Nat /\ DOMAIN tasks_queue = 1..n
      /\ tasks_buffer_head \in Int
      /\ \A i \in 1..n : Age(tasks_queue[i], tasks_buffer_head) \in Int
  BY Typing DEF Age
<1>1. ASSUME NEW i \in 1..n, Handler(i) = "timer"
      PROVE  n - i <= 2
  <2>1. MaxTimers <= 3
    BY DEF MaxTimers, Armed
  <2>2. MaxTimers \in Int
    BY DEF MaxTimers, Armed
  <2>3. n - i + 1 <= MaxTimers
    BY <1>0, <1>1 DEF TasksInv, TimersFew
  <2>. QED BY <1>0, <2>1, <2>2, <2>3
<1>2. ASSUME NEW i \in 1..n, Handler(i) # "timer"
      PROVE  n - i <= 4
  <2>1. SUFFICES ASSUME n - i >= 5 PROVE FALSE
    BY <1>0
  <2>2. /\ i+1 \in 1..n /\ i+2 \in 1..n
        /\ i < i+1 /\ i+1 < i+2
    BY <1>0, <2>1
  <2>3. Handler(i+2) # "timer"
    <3>1. SUFFICES ASSUME Handler(i+2) = "timer" PROVE FALSE
      OBVIOUS
    <3>2. n - (i+2) <= 2
      BY <1>1, <2>2, <3>1
    <3>. QED BY <1>0, <2>1, <3>2
  <2>4. priority(Handler(i+1)) <= priority(Handler(i+2))
    BY <1>0, <2>2 DEF TasksInv, TasksSorted
  <2>5. Handler(i+1) # "timer"
    BY <2>3, <2>4 DEF priority
  <2>6. /\ Handler(i) \in {"syscall", "external"}
        /\ Handler(i+1) \in {"syscall", "external"}
        /\ Handler(i+2) \in {"syscall", "external"}
    BY <1>0, <1>2, <2>2, <2>3, <2>5 DEF TasksInv, OneEach, Handlers
  <2>7. /\ Handler(i) # Handler(i+1) /\ Handler(i) # Handler(i+2)
        /\ Handler(i+1) # Handler(i+2)
    <3>1. \A j, k \in 1..n : Handler(j) = Handler(k) /\ Handler(j) # "timer" => j = k
      BY <1>0 DEF TasksInv, OneEach
    <3>. QED BY <1>2, <2>2, <2>3, <2>5, <3>1
  <2>. QED BY <2>6, <2>7
<1>3. Overtakers \in Int /\ Overtakers <= MaxBurst + 2
  BY <1>0 DEF Overtakers, TypeOK
<1>4. ASSUME NEW i \in 1..n
      PROVE  Age(tasks_queue[i], tasks_buffer_head) <= BufferSize - 2
  <2>1. Age(tasks_queue[i], tasks_buffer_head) <= n - i + (IF Handler(i) = "timer" THEN Overtakers ELSE 0)
    BY <1>0 DEF TasksInv, SlotsKept
  <2>2. CASE Handler(i) = "timer"
    BY <1>0, <1>1, <1>3, <2>1, <2>2 DEF Enough
  <2>3. CASE Handler(i) # "timer"
    BY <1>0, <1>2, <2>1, <2>3 DEF Enough
  <2>. QED BY <2>2, <2>3
<1>5. Age(tasks_buffer_head, tasks_buffer_head) = BufferSize - 1
  BY <1>0 DEF Age
<1>6. \A i \in 1..n : tasks_queue[i] # tasks_buffer_head
  BY <1>0, <1>4, <1>5
<1>. QED BY <1>0, <1>4, <1>6 DEF Range

\* What adding a task does: it takes position p, behind the tasks that are as
\* urgent.
Added(h, p) ==
  /\ p \in 1..(Len(tasks_queue) + 1)
  /\ h = "timer" => p = Len(tasks_queue) + 1
  /\ h # "timer" => /\ \A j \in 1..Len(tasks_queue) : j < p => Handler(j) # "timer"
                    /\ \A j \in 1..Len(tasks_queue) : p <= j => Handler(j) = "timer"
  /\ tasks_queue' \in Seq(Slots)
  /\ Len(tasks_queue') = Len(tasks_queue) + 1
  /\ DOMAIN tasks_queue' = 1..(Len(tasks_queue) + 1)
  /\ IsInjective(tasks_queue')
  /\ \A j \in 1..(Len(tasks_queue) + 1) :
       /\ tasks_queue'[j] = IF j < p THEN tasks_queue[j]
                            ELSE IF j = p THEN tasks_buffer_head
                            ELSE tasks_queue[j-1]
       /\ Handler(j)' = IF j < p THEN Handler(j)
                        ELSE IF j = p THEN h ELSE Handler(j-1)
  /\ tasks_buffer' \in [Slots -> Handlers \cup {"done"}]
  /\ tasks_buffer_head' \in Slots
  /\ \A i \in 1..Len(tasks_queue) :
       Age(tasks_queue[i], tasks_buffer_head') = Age(tasks_queue[i], tasks_buffer_head) + 1
  /\ Age(tasks_buffer_head, tasks_buffer_head) = BufferSize - 1
  /\ Age(tasks_buffer_head, tasks_buffer_head') = 0

\* interrupt_tasks_add has that effect.
LEMMA AddEffect ==
  ASSUME TypeOK, TasksInv, Enough, NEW h \in Handlers, interrupt_tasks_add(h)
  PROVE  \E p : Added(h, p)
<1>. DEFINE n == Len(tasks_queue)
            stops == {i \in DOMAIN tasks_queue :
                        priority(h) < priority(tasks_buffer'[tasks_queue[i]])}
<1>0. /\ BufferSize \in Nat \ {0}
      /\ n \in Nat /\ DOMAIN tasks_queue = 1..n
      /\ \A i \in 1..n : tasks_queue[i] \in Slots
      /\ \A s \in Slots : s \in Int /\ 0 <= s /\ s < BufferSize
      /\ tasks_buffer_head \in Slots
      /\ tasks_queue \in Seq(Slots)
  BY Typing
<1>1. tasks_buffer_head \notin Range(tasks_queue)
  BY SlotFree
<1>2. /\ tasks_buffer' = [tasks_buffer EXCEPT ![tasks_buffer_head] = h]
      /\ tasks_buffer' \in [Slots -> Handlers \cup {"done"}]
  BY DEF interrupt_tasks_add, TypeOK
<1>3. \A i \in 1..n : tasks_queue[i] # tasks_buffer_head
  BY <1>0, <1>1 DEF Range
<1>4. \A i \in 1..n : tasks_buffer'[tasks_queue[i]] = Handler(i)
  BY <1>0, <1>2, <1>3 DEF Handler, TypeOK
<1>5. tasks_buffer'[tasks_buffer_head] = h
  BY <1>0, <1>2 DEF TypeOK
<1>6. PICK p \in 1..(n + 1) :
        /\ p \in stops \/ (stops = {} /\ p = n + 1)
        /\ \A k \in stops : p <= k
        /\ tasks_queue' \in Seq(Slots)
        /\ Len(tasks_queue') = n + 1
        /\ \A j \in 1..(n + 1) :
             tasks_queue'[j] =
               IF j < p THEN tasks_queue[j] ELSE IF j = p THEN tasks_buffer_head
               ELSE tasks_queue[j-1]
  <2>1. stops \in SUBSET DOMAIN tasks_queue
    OBVIOUS
  <2>2. tasks_queue' = InsertSorted(tasks_queue, tasks_buffer_head, stops)
    BY DEF interrupt_tasks_add
  <2>. HIDE DEF stops
  <2>. DEFINE r == InsertSorted(tasks_queue, tasks_buffer_head, stops)
  <2>3. \E p \in 1..(n + 1) :
          /\ p \in stops \/ (stops = {} /\ p = n + 1)
          /\ \A k \in stops : p <= k
          /\ r \in Seq(Slots)
          /\ Len(r) = n + 1
          /\ \A j \in 1..(n + 1) :
               r[j] = IF j < p THEN tasks_queue[j]
                      ELSE IF j = p THEN tasks_buffer_head ELSE tasks_queue[j-1]
    <3>1. tasks_queue \in Seq(Slots) /\ tasks_buffer_head \in Slots
      BY <1>0
    <3>. QED BY <2>1, <3>1, InsertSortedPlace
  <2>. HIDE DEF r
  <2>4. tasks_queue' = r
    BY <2>2 DEF r
  <2>. QED BY <2>3, <2>4
<1>7. IsInjective(tasks_queue') /\ DOMAIN tasks_queue' = 1..(n+1)
  <2>1. p \in 1..(Len(tasks_queue) + 1) /\ IsInjective(tasks_queue)
    BY DEF TasksInv
  <2>. HIDE DEF stops
  <2>. QED BY <1>0, <1>1, <1>6, <2>1, SpliceRange, LenProperties
<1>8. h = "timer" => p = n + 1
  <2>1. ASSUME h = "timer", NEW i \in 1..n PROVE i \notin stops
    BY <2>1 DEF priority
  <2>. QED BY <1>0, <1>6, <2>1
<1>9. ASSUME h # "timer", NEW j \in 1..n, j < p
      PROVE  Handler(j) # "timer"
  <2>1. j \notin stops
    <3>. HIDE DEF stops
    <3>. QED BY <1>0, <1>6, <1>9
  <2>. QED BY <1>0, <1>4, <1>9, <2>1 DEF priority
<1>10. ASSUME h # "timer", NEW j \in 1..n, p <= j
       PROVE  Handler(j) = "timer"
  <2>1. p \in stops /\ p \in 1..n
    BY <1>0, <1>6, <1>10
  <2>2. Handler(p) = "timer"
    BY <1>0, <1>4, <1>10, <2>1 DEF priority
  <2>3. p = j \/ priority(Handler(p)) <= priority(Handler(j))
    BY <1>0, <1>10, <2>1 DEF TasksInv, TasksSorted
  <2>. QED BY <2>2, <2>3 DEF priority
<1>. HIDE DEF stops
<1>11. ASSUME NEW j \in 1..(n + 1)
       PROVE  Handler(j)' = IF j < p THEN Handler(j)
                            ELSE IF j = p THEN h ELSE Handler(j-1)
  <2>1. CASE j < p
    BY <1>0, <1>4, <1>6, <2>1 DEF Handler
  <2>2. CASE j = p
    BY <1>5, <1>6, <2>2 DEF Handler
  <2>3. CASE j > p
    <3>1. j - 1 \in 1..n
      BY <1>0, <1>6, <2>3
    <3>2. tasks_queue'[j] = tasks_queue[j-1]
      BY <1>0, <1>6, <2>3
    <3>3. Handler(j)' = tasks_buffer'[tasks_queue[j-1]]
      BY <3>2 DEF Handler
    <3>. QED BY <1>0, <1>4, <2>3, <3>1, <3>3
  <2>. QED BY <1>0, <2>1, <2>2, <2>3
<1>12. tasks_buffer_head' = IF tasks_buffer_head + 1 = BufferSize THEN 0
                            ELSE tasks_buffer_head + 1
  <2>1. tasks_buffer_head' = (tasks_buffer_head + 1) % BufferSize
    BY DEF interrupt_tasks_add
  <2>2. CASE tasks_buffer_head + 1 = BufferSize
    BY <1>0, <2>1, <2>2
  <2>3. CASE tasks_buffer_head + 1 # BufferSize
    BY SMTT(40), <1>0, <2>1, <2>3
  <2>. QED BY <2>2, <2>3
<1>13. tasks_buffer_head' \in Slots
  BY <1>0, <1>12 DEF Slots
<1>a. ASSUME NEW s \in Slots, s # tasks_buffer_head
      PROVE  Age(s, tasks_buffer_head') = Age(s, tasks_buffer_head) + 1
  BY <1>0, <1>12, <1>a DEF Age
<1>14. \A i \in 1..n : Age(tasks_queue[i], tasks_buffer_head')
                        = Age(tasks_queue[i], tasks_buffer_head) + 1
  BY <1>0, <1>3, <1>a
<1>15. /\ Age(tasks_buffer_head, tasks_buffer_head) = BufferSize - 1
       /\ Age(tasks_buffer_head, tasks_buffer_head') = 0
  BY <1>0, <1>12 DEF Age
<1>16. Added(h, p)
  BY <1>0, <1>2, <1>6, <1>7, <1>8, <1>9, <1>10, <1>11, <1>13, <1>14, <1>15 DEF Added
<1>. QED BY <1>16

\* A task is pending if and only if it has a position in the queue.
LEMMA PendingPosition ==
  \A h : Pending(h) # {} <=> \E i \in DOMAIN tasks_queue : Handler(i) = h
BY DEF Pending, Range, Handler

\* Only timer tasks may be pending while a program runs.
LEMMA NoneInPrograms ==
  ASSUME TypeOK, TasksInv, pc = "run"
  PROVE  ~ CallDue
BY DEF TasksInv, OneEach, CallDue

\* Adding a task keeps what is said of the queue, if it is one that may come
\* in this state.
LEMMA AddKeeps ==
  ASSUME TypeOK, TasksInv, Enough, TypeOK',
         NEW h \in Handlers, interrupt_tasks_add(h), Enter,
         UNCHANGED <<irq, burst>>,
         timer' = IF h = "timer" THEN Far ELSE timer,
         claimed' = (claimed \/ h = "external"),
         h = "timer" => timer # Far,
         h = "external" => irq /\ ~ claimed,
         h = "syscall" => pc = "run"
  PROVE  TasksInv'
<1>. DEFINE n == Len(tasks_queue)
<1>1. PICK p : Added(h, p)
  BY AddEffect
<1>2. /\ n \in Nat /\ DOMAIN tasks_queue = 1..n
      /\ BufferSize \in Nat /\ burst \in Nat
      /\ \A s \in Slots : s \in Int
      /\ \A j \in 1..n : tasks_queue[j] \in Slots
      /\ tasks_buffer_head \in Slots
  BY Typing
<1>3. /\ p \in 1..(n+1) /\ DOMAIN tasks_queue' = 1..(n+1) /\ Len(tasks_queue') = n + 1
      /\ \A j \in 1..(n+1) :
           Handler(j)' = IF j < p THEN Handler(j)
                         ELSE IF j = p THEN h ELSE Handler(j-1)
  BY <1>1 DEF Added
<1>4. /\ h = "timer" => p = n + 1
      /\ h # "timer" => /\ \A j \in 1..n : j < p => Handler(j) # "timer"
                        /\ \A j \in 1..n : p <= j => Handler(j) = "timer"
  BY <1>1 DEF Added
<1>5. \A j \in 1..n : Handler(j) \in Handlers
  BY <1>2 DEF TasksInv, OneEach
<1>6. ASSUME NEW g, NEW j \in 1..n, Handler(j) = g
      PROVE  \E k \in 1..(n+1) : Handler(k)' = g
  <2>1. CASE j < p
    BY <1>2, <1>3, <1>6, <2>1
  <2>2. CASE ~(j < p)
    <3>1. j + 1 \in 1..(n+1) /\ ~(j+1 < p) /\ j + 1 # p /\ (j+1)-1 = j
      BY <1>2, <1>3, <2>2
    <3>2. Handler(j+1)' = Handler((j+1)-1)
      BY <1>3, <3>1
    <3>. QED BY <1>6, <3>1, <3>2
  <2>. QED BY <2>1, <2>2
<1>7. ASSUME NEW k \in 1..(n+1)
      PROVE  \/ k = p /\ Handler(k)' = h
             \/ k < p /\ k \in 1..n /\ Handler(k)' = Handler(k)
             \/ k > p /\ k-1 \in 1..n /\ Handler(k)' = Handler(k-1)
  BY <1>2, <1>3
<1>8. \A g : (\E k \in DOMAIN tasks_queue' : Handler(k)' = g)
               <=> (g = h \/ \E j \in DOMAIN tasks_queue : Handler(j) = g)
  <2>1. Handler(p)' = h
    BY <1>3
  <2>. QED BY <1>2, <1>3, <1>6, <1>7, <2>1
<1>9. pc' = IF pc = "run" THEN "loop" ELSE pc
  BY DEF Enter
<1>10. CallDue' <=> (CallDue \/ h = "syscall")
  BY <1>8, <1>9 DEF CallDue
<1>11. /\ MaxTimers \in Int /\ MaxTimers' \in Int
       /\ MaxTimers' >= MaxTimers
       /\ h = "timer" => MaxTimers' >= MaxTimers + 1 /\ MaxTimers' >= 1
  <2>1. h = "timer" => Armed = 1 /\ Armed' = 0
    BY DEF Armed, Far
  <2>2. h # "timer" => Armed' = Armed
    BY DEF Armed, Far
  <2>3. /\ Armed \in Int /\ 0 <= Armed /\ Armed <= 1
        /\ Armed' \in Int /\ 0 <= Armed' /\ Armed' <= 1
    BY DEF Armed
  <2>c. Armed' = 0 \/ Armed' = 1
    BY DEF Armed
  <2>. DEFINE c == IF CallDue THEN 1 ELSE 0
  <2>a. /\ c \in Int /\ 0 <= c /\ c <= 1
        /\ c' \in Int /\ 0 <= c' /\ c' <= 1
    OBVIOUS
  <2>b. h # "syscall" => c' = c
    BY <1>10
  <2>4. CASE pc = "run"
    <3>1. c = 0
      BY <2>4, NoneInPrograms
    <3>2. MaxTimers \in Int /\ MaxTimers <= 1
      BY <2>4 DEF MaxTimers
    <3>3. MaxTimers' = 3 - Armed' - c'
      BY <1>9, <2>4 DEF MaxTimers
    <3>4. h = "timer" => c' = 0
      BY <2>b, <3>1
    <3>5. CASE h = "timer"
      BY <2>1, <3>2, <3>3, <3>4, <3>5
    <3>6. CASE h # "timer"
      <4>1. CASE CallDue'
        <5>1. 3 - Armed' - c' = 2 - Armed'
          BY <2>3, <4>1
        <5>2. 2 - Armed' \in Int /\ 2 - Armed' >= 1
          BY <2>c
        <5>3. MaxTimers' \in Int /\ MaxTimers' >= 1
          BY <3>3, <5>1, <5>2
        <5>. QED BY <3>2, <3>6, <5>3
      <4>2. CASE ~CallDue'
        <5>1. 3 - Armed' - c' = 3 - Armed'
          BY <2>3, <4>2
        <5>2. 3 - Armed' \in Int /\ 3 - Armed' >= 1
          BY <2>c
        <5>3. MaxTimers' \in Int /\ MaxTimers' >= 1
          BY <3>3, <5>1, <5>2
        <5>. QED BY <3>2, <3>6, <5>3
      <4>. QED BY <4>1, <4>2
    <3>. QED BY <3>5, <3>6
  <2>5. CASE pc = "leave"
    <3>1. MaxTimers = 1 - Armed /\ MaxTimers' = 1 - Armed'
      BY <1>9, <2>5 DEF MaxTimers
    <3>2. CASE h = "timer"
      BY <2>1, <3>1, <3>2
    <3>3. CASE h # "timer"
      BY <2>2, <2>3, <3>1, <3>3
    <3>. QED BY <3>2, <3>3
  <2>6. CASE pc \in {"timer", "expire", "message"}
    <3>1. MaxTimers = 2 - Armed /\ MaxTimers' = 2 - Armed'
      BY <1>9, <2>6 DEF MaxTimers
    <3>2. CASE h = "timer"
      BY <2>1, <3>1, <3>2
    <3>3. CASE h # "timer"
      BY <2>2, <2>3, <3>1, <3>3
    <3>. QED BY <3>2, <3>3
  <2>7. CASE pc \notin {"run", "leave", "timer", "expire", "message"}
    <3>1. MaxTimers = 3 - Armed - c /\ MaxTimers' = 3 - Armed' - c'
      BY <1>9, <2>7 DEF MaxTimers
    <3>2. c' = c
      BY <2>7, <2>b
    <3>. HIDE DEF c
    <3>3. CASE h = "timer"
      <4>1. MaxTimers = 2 - c /\ MaxTimers' = 3 - c
        BY <2>1, <2>a, <3>1, <3>2, <3>3
      <4>. QED BY <2>a, <3>3, <4>1
    <3>4. CASE h # "timer"
      BY <2>2, <2>3, <2>a, <3>1, <3>2, <3>4
    <3>. QED BY <3>3, <3>4
  <2>. QED BY <2>4, <2>5, <2>6, <2>7
<1>12. /\ Overtakers \in Nat /\ Overtakers' \in Nat
       /\ Overtakers' >= Overtakers
       /\ h # "timer" => Overtakers' >= Overtakers + 1
  <2>1. CASE h = "timer"
    <3>1. claimed' = claimed /\ irq' = irq
      BY <2>1 DEF TypeOK
    <3>2. CASE irq /\ ~ claimed
      BY <1>2, <1>9, <2>1, <3>1, <3>2 DEF Overtakers
    <3>3. CASE ~(irq /\ ~ claimed)
      BY <1>2, <1>9, <2>1, <3>1, <3>3 DEF Overtakers
    <3>. QED BY <3>2, <3>3
  <2>2. CASE h = "external"
    <3>1. irq /\ ~ claimed /\ claimed'
      BY <2>2
    <3>2. /\ Overtakers = burst + 0 + (IF pc \in {"run", "leave"} THEN 0 ELSE 1)
          /\ Overtakers' = burst + 1 + (IF pc' \in {"run", "leave"} THEN 0 ELSE 1)
      BY <3>1 DEF Overtakers
    <3>3. CASE pc \in {"run", "leave"}
      <4>1. Overtakers = burst
        BY <1>2, <3>2, <3>3
      <4>2. Overtakers' = burst + 1 \/ Overtakers' = burst + 2
        BY <1>2, <3>2
      <4>. QED BY <1>2, <4>1, <4>2
    <3>4. CASE pc \notin {"run", "leave"}
      BY <1>2, <1>9, <3>2, <3>4
    <3>. QED BY <3>3, <3>4
  <2>3. CASE h = "syscall"
    <3>1. claimed' = claimed /\ irq' = irq /\ pc = "run" /\ pc' = "loop"
      BY <1>9, <2>3 DEF TypeOK
    <3>2. CASE irq /\ ~ claimed
      BY <1>2, <3>1, <3>2 DEF Overtakers
    <3>3. CASE ~(irq /\ ~ claimed)
      BY <1>2, <3>1, <3>3 DEF Overtakers
    <3>. QED BY <3>2, <3>3
  <2>. QED BY <2>1, <2>2, <2>3 DEF Handlers
<1>13. IsInjective(tasks_queue)'
  BY <1>1 DEF Added
<1>14. TasksSorted'
  <2>1. SUFFICES ASSUME NEW i \in 1..(n+1), NEW j \in 1..(n+1), i < j
                 PROVE  priority(Handler(i)') <= priority(Handler(j)')
    BY <1>3 DEF TasksSorted
  <2>2. \A k, m \in 1..n : k < m => priority(Handler(k)) <= priority(Handler(m))
    BY <1>2 DEF TasksInv, TasksSorted
  <2>3. CASE i = p
    <3>1. h # "timer"
      BY <1>2, <1>3, <1>4, <2>1, <2>3
    <3>. QED BY <1>3, <2>3, <3>1 DEF priority
  <2>4. CASE j = p
    <3>1. i \in 1..n /\ Handler(i)' = Handler(i) /\ i < p
      BY <1>2, <1>3, <2>1, <2>4
    <3>2. h = "timer" \/ Handler(i) # "timer"
      BY <1>4, <3>1
    <3>. QED BY <1>3, <2>4, <3>1, <3>2 DEF priority
  <2>5. CASE i < p /\ j < p
    <3>1. i \in 1..n /\ j \in 1..n /\ Handler(i)' = Handler(i) /\ Handler(j)' = Handler(j)
      BY <1>2, <1>3, <2>5
    <3>. QED BY <2>1, <2>2, <3>1
  <2>6. CASE i < p /\ j > p
    <3>1. i \in 1..n /\ j-1 \in 1..n /\ Handler(i)' = Handler(i) /\ Handler(j)' = Handler(j-1)
      BY <1>2, <1>3, <2>6
    <3>2. i < j - 1
      BY <1>3, <2>6
    <3>. QED BY <2>2, <3>1, <3>2
  <2>7. CASE i > p /\ j > p
    <3>1. /\ i-1 \in 1..n /\ j-1 \in 1..n /\ i-1 < j-1
          /\ Handler(i)' = Handler(i-1) /\ Handler(j)' = Handler(j-1)
      BY <1>2, <1>3, <2>1, <2>7
    <3>. QED BY <2>2, <3>1
  <2>. QED BY <1>2, <1>3, <2>1, <2>3, <2>4, <2>5, <2>6, <2>7
<1>15. h # "timer" => \A j \in 1..n : Handler(j) # h
  <2>1. CASE h = "syscall"
    BY <1>2, <2>1 DEF TasksInv, OneEach
  <2>2. CASE h = "external"
    BY <1>2, <2>2, PendingPosition DEF TasksInv, ClaimHeld
  <2>. QED BY <2>1, <2>2 DEF Handlers
<1>16. OneEach'
  <2>1. ASSUME NEW i \in 1..(n+1) PROVE Handler(i)' \in Handlers
    BY <1>5, <1>7
  <2>2. ASSUME NEW i \in 1..(n+1), NEW j \in 1..(n+1),
               Handler(i)' = Handler(j)', Handler(i)' # "timer"
        PROVE  i = j
    <3>1. \A k, m \in 1..n : Handler(k) = Handler(m) /\ Handler(k) # "timer" => k = m
      BY <1>2 DEF TasksInv, OneEach
    <3>2. CASE i = p /\ j # p
      <4>1. \E k \in 1..n : Handler(j)' = Handler(k)
        BY <1>7, <3>2
      <4>. QED BY <1>3, <1>15, <2>2, <3>2, <4>1
    <3>3. CASE i # p /\ j = p
      <4>1. PICK k \in 1..n : Handler(i)' = Handler(k)
        BY <1>7, <3>3
      <4>2. Handler(j)' = h
        BY <1>3, <3>3
      <4>3. Handler(k) = h /\ h # "timer"
        BY <2>2, <4>1, <4>2
      <4>. QED BY <1>15, <4>3
    <3>4. CASE i # p /\ j # p
      <4>. DEFINE back(k) == IF k < p THEN k ELSE k - 1
      <4>1. \A k \in 1..(n+1) : k # p => back(k) \in 1..n /\ Handler(k)' = Handler(back(k))
        BY <1>2, <1>3, <1>7
      <4>2. back(i) = back(j)
        <5>. HIDE DEF back
        <5>. QED BY <2>2, <3>1, <3>4, <4>1
      <4>. QED BY <1>2, <1>3, <3>4, <4>2
    <3>. QED BY <3>2, <3>3, <3>4
  <2>3. ASSUME NEW i \in 1..(n+1)
        PROVE  /\ Handler(i)' = "syscall" => pc' \in {"loop", "external"}
               /\ Handler(i)' = "external" => pc' # "external"
    <3>1. \A k \in 1..n : /\ Handler(k) = "syscall" => pc \in {"loop", "external"}
                          /\ Handler(k) = "external" => pc # "external"
      BY <1>2 DEF TasksInv, OneEach
    <3>2. h = "external" => pc # "external"
      BY DEF TasksInv, ClaimHeld
    <3>. QED BY <1>7, <1>9, <3>1, <3>2
  <2>. QED BY <1>3, <2>1, <2>2, <2>3 DEF OneEach
<1>17. TimersFew'
  <2>1. SUFFICES ASSUME NEW k \in 1..(n+1), Handler(k)' = "timer"
                 PROVE  n + 1 - k + 1 <= MaxTimers'
    BY <1>3 DEF TimersFew
  <2>2. \A j \in 1..n : Handler(j) = "timer" => n - j + 1 <= MaxTimers
    BY <1>2 DEF TasksInv, TimersFew
  <2>3. CASE k = p
    <3>1. h = "timer" /\ k = n + 1
      BY <1>3, <1>4, <2>1, <2>3
    <3>. QED BY <1>2, <1>11, <3>1
  <2>4. CASE k < p
    <3>1. k \in 1..n /\ Handler(k) = "timer"
      BY <1>2, <1>3, <2>1, <2>4
    <3>2. h = "timer"
      BY <1>4, <2>4, <3>1
    <3>. QED BY <1>2, <1>11, <2>2, <3>1, <3>2
  <2>5. CASE k > p
    <3>1. k - 1 \in 1..n /\ Handler(k-1) = "timer"
      BY <1>2, <1>3, <2>1, <2>5
    <3>. QED BY <1>2, <1>11, <2>2, <3>1
  <2>. QED BY <1>2, <1>3, <2>3, <2>4, <2>5
<1>18. SlotsKept'
  <2>0. ASSUME NEW s \in Slots
        PROVE  Age(s, tasks_buffer_head) \in Int
    BY <1>2 DEF Age
  <2>1. SUFFICES ASSUME NEW k \in 1..(n+1)
                 PROVE  Age(tasks_queue'[k], tasks_buffer_head')
                          <= n + 1 - k + (IF Handler(k)' = "timer" THEN Overtakers' ELSE 0)
    BY <1>3 DEF SlotsKept, Age
  <2>2. \A j \in 1..n : Age(tasks_queue[j], tasks_buffer_head)
                          <= n - j + (IF Handler(j) = "timer" THEN Overtakers ELSE 0)
    BY <1>2 DEF TasksInv, SlotsKept
  <2>3. CASE k = p
    <3>1. Age(tasks_queue'[k], tasks_buffer_head') = 0
      BY <1>1, <2>3 DEF Added
    <3>. QED BY <1>2, <1>12, <3>1
  <2>4. \A j \in 1..n : Age(tasks_queue[j], tasks_buffer_head')
                          = Age(tasks_queue[j], tasks_buffer_head) + 1
    BY <1>1 DEF Added
  <2>5. CASE k < p
    <3>1. k \in 1..n /\ Handler(k)' = Handler(k) /\ tasks_queue'[k] = tasks_queue[k]
      BY <1>1, <1>2, <1>3, <2>5 DEF Added
    <3>2. Age(tasks_queue[k], tasks_buffer_head) \in Int
      BY <1>2, <2>0, <3>1
    <3>3. Handler(k) = "timer" => Overtakers' >= Overtakers
      BY <1>12
    <3>. QED BY <1>2, <1>12, <2>2, <2>4, <3>1, <3>2, <3>3
  <2>6. CASE k > p
    <3>1. k-1 \in 1..n /\ Handler(k)' = Handler(k-1) /\ tasks_queue'[k] = tasks_queue[k-1]
      BY <1>1, <1>2, <1>3, <2>6 DEF Added
    <3>2. Age(tasks_queue[k-1], tasks_buffer_head) \in Int
      BY <1>2, <2>0, <3>1
    <3>3. Handler(k-1) = "timer" /\ Overtakers' >= Overtakers + 1
      BY <1>2, <1>3, <1>4, <1>12, <2>6, <3>1
    <3>. QED BY <1>2, <1>12, <2>2, <2>4, <3>1, <3>2, <3>3
  <2>. QED BY <1>2, <1>3, <2>3, <2>5, <2>6
<1>19. ClaimHeld'
  <2>1. (Pending("external") # {})' <=> (h = "external" \/ Pending("external") # {})
    <3>1. (Pending("external") # {})'
             <=> \E i \in DOMAIN tasks_queue' : Handler(i)' = "external"
      BY DEF Pending, Range, Handler
    <3>. QED BY <1>8, <3>1, PendingPosition
  <2>2. (pc = "external")' <=> pc = "external"
    BY <1>9
  <2>. QED BY <2>1, <2>2 DEF TasksInv, ClaimHeld, TypeOK
<1>. QED BY <1>13, <1>14, <1>16, <1>17, <1>18, <1>19 DEF TasksInv

\* A step that leaves the queue alone keeps what is said of it, if it makes no
\* bound smaller.
LEMMA QueueSame ==
  ASSUME TypeOK, TasksInv, UNCHANGED intr,
         \A x \in Int : x <= MaxTimers => x <= MaxTimers',
         \A x, y \in Int : x <= y + Overtakers => x <= y + Overtakers',
         \A i \in DOMAIN tasks_queue : Handler(i) = "syscall" => pc' \in {"loop", "external"},
         \A i \in DOMAIN tasks_queue : Handler(i) = "external" => pc' # "external",
         claimed' <=> (pc' = "external" \/ Pending("external") # {})
  PROVE  TasksInv'
<1>1. /\ \A i : Handler(i)' = Handler(i)
      /\ \A h : Pending(h)' = Pending(h)
      /\ tasks_queue' = tasks_queue /\ tasks_buffer_head' = tasks_buffer_head
  BY DEF intr, Handler, Pending
<1>2. /\ Len(tasks_queue) \in Nat
      /\ DOMAIN tasks_queue = 1..Len(tasks_queue)
      /\ \A i \in 1..Len(tasks_queue) : Age(tasks_queue[i], tasks_buffer_head) \in Int
  BY Typing DEF Age
<1>3. IsInjective(tasks_queue)'
  BY <1>1 DEF TasksInv
<1>4. TasksSorted'
  BY <1>1 DEF TasksInv, TasksSorted
<1>5. OneEach'
  BY <1>1 DEF TasksInv, OneEach
<1>6. TimersFew'
  <2>1. SUFFICES ASSUME NEW i \in 1..Len(tasks_queue), Handler(i) = "timer"
                 PROVE  Len(tasks_queue) - i + 1 <= MaxTimers'
    BY <1>1, <1>2 DEF TimersFew
  <2>2. Len(tasks_queue) - i + 1 <= MaxTimers
    BY <1>2, <2>1 DEF TasksInv, TimersFew
  <2>. QED BY <1>2, <2>2
<1>7. SlotsKept'
  <2>1. SUFFICES ASSUME NEW i \in 1..Len(tasks_queue)
                 PROVE  Age(tasks_queue[i], tasks_buffer_head)
                          <= Len(tasks_queue) - i
                               + (IF Handler(i) = "timer" THEN Overtakers' ELSE 0)
    BY <1>1, <1>2 DEF SlotsKept, Age
  <2>2. Age(tasks_queue[i], tasks_buffer_head)
          <= Len(tasks_queue) - i + (IF Handler(i) = "timer" THEN Overtakers ELSE 0)
    BY <1>2 DEF TasksInv, SlotsKept
  <2>3. CASE Handler(i) = "timer"
    <3>1. Len(tasks_queue) - i \in Int
      BY <1>2
    <3>. QED BY <1>2, <2>2, <2>3, <3>1
  <2>4. CASE Handler(i) # "timer"
    BY <2>2, <2>4
  <2>. QED BY <2>3, <2>4
<1>8. ClaimHeld'
  BY <1>1 DEF ClaimHeld
<1>. QED BY <1>3, <1>4, <1>5, <1>6, <1>7, <1>8 DEF TasksInv

\* The bound on the timer tasks at the places where the timer may be set.
LEMMA TimersBound ==
  /\ MaxTimers \in Int
  /\ pc = "run" => MaxTimers = 1
  /\ pc = "leave" => MaxTimers <= 1
  /\ pc \in {"timer", "expire", "message"} => MaxTimers <= 2
  /\ pc = "syscall" => MaxTimers <= 2
BY DEF MaxTimers, Armed, CallDue

\* The tasks that may have overtaken one are counted alike as long as the
\* session goes on and the UART is as it was.
LEMMA OvertakersSame ==
  ASSUME TypeOK, UNCHANGED <<irq, burst, claimed>>,
         pc \in {"run", "leave"} <=> pc' \in {"run", "leave"}
  PROVE  \A x, y \in Int : x <= y + Overtakers => x <= y + Overtakers'
<1>1. Overtakers' = Overtakers
  BY DEF Overtakers
<1>. QED BY <1>1

\* System calls and the completion of the UART interrupt leave the queue of
\* tasks alone, and so do the timer task and the end of the session.
LEMMA HandlersKeep ==
  ASSUME TypeOK, TasksInv,
         \/ syscall_handler
         \/ _interrupt_external_handler
         \/ TimerRead
         \/ TimerExpire
         \/ TimerDone
         \/ Leave
  PROVE  TasksInv'
<1>0. UNCHANGED intr
  BY DEF syscall_handler, _interrupt_external_handler, TimerRead, TimerExpire,
         TimerDone, Leave, intr
<1>1. \A i : Handler(i)' = Handler(i)
  BY <1>0 DEF intr, Handler
<1>2. /\ tasks_queue' = tasks_queue
      /\ \A i \in DOMAIN tasks_queue : Handler(i) = "syscall" => pc \in {"loop", "external"}
      /\ \A i \in DOMAIN tasks_queue : Handler(i) = "external" => pc # "external"
      /\ claimed <=> (pc = "external" \/ Pending("external") # {})
  BY <1>0 DEF TasksInv, OneEach, ClaimHeld, intr
<1>3. CallDue' <=> (pc' = "syscall" \/ \E i \in DOMAIN tasks_queue : Handler(i) = "syscall")
  BY <1>1, <1>2 DEF CallDue
<1>4. CASE syscall_handler
  <2>1. pc = "syscall" /\ pc' = "loop" /\ UNCHANGED <<irq, burst, claimed>>
    BY <1>4 DEF syscall_handler
  <2>2. ~ CallDue'
    BY <1>2, <1>3, <2>1
  <2>3. MaxTimers' = 3 \/ MaxTimers' = 2
    BY <2>1, <2>2 DEF MaxTimers, Armed
  <2>4. \A x \in Int : x <= MaxTimers => x <= MaxTimers'
    BY <2>1, <2>3, TimersBound
  <2>5. \A x, y \in Int : x <= y + Overtakers => x <= y + Overtakers'
    BY <2>1, OvertakersSame
  <2>. QED BY <1>0, <1>2, <2>1, <2>4, <2>5, QueueSame
<1>5. CASE _interrupt_external_handler
  <2>1. /\ pc = "external" /\ pc' = "loop" /\ UNCHANGED <<timer, burst>>
        /\ ~ irq' /\ ~ claimed' /\ claimed
    BY <1>2, <1>5 DEF _interrupt_external_handler
  <2>2. CallDue' <=> CallDue
    BY <1>3, <2>1 DEF CallDue
  <2>3. MaxTimers' = MaxTimers
    BY <2>1, <2>2 DEF MaxTimers, Armed
  <2>4. Overtakers' = Overtakers
    BY <2>1 DEF Overtakers
  <2>5. Pending("external") = {}
    BY <1>2, <2>1, PendingPosition
  <2>. QED BY <1>0, <1>2, <2>1, <2>3, <2>4, <2>5, QueueSame
<1>6. CASE TimerRead
  <2>1. pc = "timer" /\ pc' = "expire" /\ UNCHANGED <<timer, irq, burst, claimed>>
    BY <1>6 DEF TimerRead
  <2>3. MaxTimers' = MaxTimers
    BY <2>1 DEF MaxTimers, Armed
  <2>5. \A x, y \in Int : x <= y + Overtakers => x <= y + Overtakers'
    BY <2>1, OvertakersSame
  <2>. QED BY <1>0, <1>2, <2>1, <2>3, <2>5, QueueSame
<1>7. CASE TimerExpire
  <2>1. /\ pc = "expire" /\ pc' \in {"expire", "message"}
        /\ UNCHANGED <<timer, irq, burst, claimed>>
    BY <1>7 DEF TimerExpire
  <2>3. MaxTimers' = MaxTimers
    BY <2>1 DEF MaxTimers, Armed
  <2>5. \A x, y \in Int : x <= y + Overtakers => x <= y + Overtakers'
    BY <2>1, OvertakersSame
  <2>. QED BY <1>0, <1>2, <2>1, <2>3, <2>5, QueueSame
<1>8. CASE TimerDone
  <2>1. pc = "expire" /\ pc' = "loop" /\ UNCHANGED <<irq, burst, claimed>>
    BY <1>8 DEF TimerDone
  <2>2. ~ CallDue'
    BY <1>2, <1>3, <2>1
  <2>3. MaxTimers' = 3 \/ MaxTimers' = 2
    BY <2>1, <2>2 DEF MaxTimers, Armed
  <2>4. \A x \in Int : x <= MaxTimers => x <= MaxTimers'
    BY <2>1, <2>3, TimersBound
  <2>5. \A x, y \in Int : x <= y + Overtakers => x <= y + Overtakers'
    BY <2>1, OvertakersSame
  <2>. QED BY <1>0, <1>2, <2>1, <2>4, <2>5, QueueSame
<1>9. CASE Leave
  <2>1. pc = "leave" /\ pc' = "run" /\ UNCHANGED <<irq, burst, claimed>>
    BY <1>9 DEF Leave
  <2>3. MaxTimers' = 1
    BY <2>1 DEF MaxTimers
  <2>4. \A x \in Int : x <= MaxTimers => x <= MaxTimers'
    BY <2>1, <2>3, TimersBound
  <2>5. \A x, y \in Int : x <= y + Overtakers => x <= y + Overtakers'
    BY <2>1, OvertakersSame
  <2>. QED BY <1>0, <1>2, <2>1, <2>4, <2>5, QueueSame
<1>. QED BY <1>4, <1>5, <1>6, <1>7, <1>8, <1>9

\* So do the programs, and the world.
LEMMA OutsideKeeps ==
  ASSUME TypeOK, TasksInv, Yield \/ command_settimeout \/ Tick \/ UartRequest
  PROVE  TasksInv'
<1>0. UNCHANGED intr /\ pc' = pc /\ claimed' = claimed
  BY DEF Yield, command_settimeout, Tick, UartRequest, intr
<1>1. \A i : Handler(i)' = Handler(i)
  BY <1>0 DEF intr, Handler
<1>2. /\ tasks_queue' = tasks_queue
      /\ \A i \in DOMAIN tasks_queue : Handler(i) = "syscall" => pc \in {"loop", "external"}
      /\ \A i \in DOMAIN tasks_queue : Handler(i) = "external" => pc # "external"
      /\ claimed <=> (pc = "external" \/ Pending("external") # {})
  BY <1>0 DEF TasksInv, OneEach, ClaimHeld, intr
<1>3. CallDue' <=> CallDue
  BY <1>0, <1>1, <1>2 DEF CallDue
<1>4. MaxTimers' = MaxTimers
  <2>1. CASE pc = "run"
    BY <1>0, <2>1 DEF MaxTimers
  <2>2. CASE pc # "run"
    <3>1. Tick \/ UartRequest
      BY <2>2 DEF Yield, command_settimeout
    <3>2. timer = Far <=> timer' = Far
      <4>1. CASE Tick
        BY <4>1, TicksAssumption DEF Tick, Far
      <4>2. CASE UartRequest
        BY <4>2 DEF UartRequest
      <4>. QED BY <3>1, <4>1, <4>2
    <3>3. Armed' = Armed
      BY <3>2 DEF Armed, Far
    <3>. QED BY <1>0, <1>3, <3>3 DEF MaxTimers
  <2>. QED BY <2>1, <2>2
<1>5. \A x, y \in Int : x <= y + Overtakers => x <= y + Overtakers'
  <2>1. CASE Yield \/ command_settimeout \/ Tick
    <3>1. UNCHANGED <<irq, burst, claimed>>
      BY <2>1 DEF Yield, command_settimeout, Tick
    <3>. QED BY <1>0, <3>1, OvertakersSame
  <2>2. CASE UartRequest
    <3>1. ~ irq /\ irq' /\ burst' = burst + 1 /\ burst \in Nat
      BY <2>2, Typing DEF UartRequest
    <3>2. CASE claimed
      BY <1>0, <3>1, <3>2 DEF Overtakers
    <3>3. CASE ~ claimed
      BY <1>0, <3>1, <3>3 DEF Overtakers
    <3>. QED BY <3>2, <3>3
  <2>. QED BY <2>1, <2>2
<1>. QED BY <1>0, <1>2, <1>4, <1>5, QueueSame

\* Taking the first task leaves the ones behind it, in their places.
LEMMA TakeEffect ==
  ASSUME TypeOK, TasksInv, interrupt_tasks_execute, tasks_queue # << >>
  PROVE  /\ pc = "loop" /\ pc' = Handler(1) /\ pc' \in Handlers
         /\ 1 \in 1..Len(tasks_queue)
         /\ UNCHANGED <<tasks_buffer_head, timer, burst, irq, claimed>>
         /\ tasks_buffer' \in [Slots -> Handlers \cup {"done"}]
         /\ tasks_queue' \in Seq(Slots)
         /\ Len(tasks_queue') = Len(tasks_queue) - 1
         /\ DOMAIN tasks_queue' = 1..(Len(tasks_queue) - 1)
         /\ \A i \in 1..(Len(tasks_queue) - 1) :
              tasks_queue'[i] = tasks_queue[i+1] /\ Handler(i)' = Handler(i+1)
<1>. DEFINE n == Len(tasks_queue)
<1>0. /\ n \in Nat /\ DOMAIN tasks_queue = 1..n /\ tasks_queue \in Seq(Slots)
      /\ \A i \in 1..n : tasks_queue[i] \in Slots
  BY Typing
<1>1. IsInjective(tasks_queue)
  BY DEF TasksInv
<1>2. n # 0 /\ Head(tasks_queue) = tasks_queue[1] /\ 1 \in 1..n
  BY <1>0, EmptySeq
<1>3. /\ tasks_queue' = linked_list_remove(tasks_queue, Head(tasks_queue))
      /\ tasks_buffer' = [tasks_buffer EXCEPT ![Head(tasks_queue)] = "done"]
      /\ pc = "loop" /\ pc' = tasks_buffer[Head(tasks_queue)]
      /\ UNCHANGED <<tasks_buffer_head, timer, burst, irq, claimed>>
  BY DEF interrupt_tasks_execute
<1>4. tasks_queue' = Tail(tasks_queue)
  BY <1>0, <1>1, <1>3, RemoveHead
<1>5. /\ tasks_queue' \in Seq(Slots)
      /\ Len(tasks_queue') = n - 1
      /\ DOMAIN tasks_queue' = 1..(n - 1)
      /\ \A i \in 1..(n - 1) : tasks_queue'[i] = tasks_queue[i+1]
  BY <1>0, <1>2, <1>4
<1>6. pc' = Handler(1) /\ pc' \in Handlers
  BY <1>0, <1>2, <1>3 DEF Handler, TasksInv, OneEach
<1>7. ASSUME NEW i \in 1..(n-1)
      PROVE  Handler(i)' = Handler(i+1)
  <2>1. i+1 \in 1..n /\ i + 1 # 1
    BY <1>0
  <2>2. tasks_queue[i+1] # tasks_queue[1] /\ tasks_queue[i+1] \in Slots
    BY <1>0, <1>1, <1>2, <2>1 DEF IsInjective
  <2>3. tasks_buffer'[tasks_queue[i+1]] = tasks_buffer[tasks_queue[i+1]]
    BY <1>2, <1>3, <2>2 DEF TypeOK
  <2>. QED BY <1>5, <2>3 DEF Handler
<1>8. tasks_buffer' \in [Slots -> Handlers \cup {"done"}]
  BY <1>3 DEF TypeOK
<1>. QED BY <1>2, <1>3, <1>5, <1>6, <1>7, <1>8

\* Taking the first task keeps what is said of the queue.
LEMMA ExecuteKeeps ==
  ASSUME TypeOK, TasksInv, interrupt_tasks_execute
  PROVE  TasksInv'
<1>. DEFINE n == Len(tasks_queue)
<1>0. /\ n \in Nat /\ DOMAIN tasks_queue = 1..n /\ tasks_queue \in Seq(Slots)
      /\ \A i \in 1..n : Age(tasks_queue[i], tasks_buffer_head) \in Int
  BY Typing DEF Age
<1>1. CASE tasks_queue = << >>
  <2>1. /\ tasks_queue' = << >> /\ pc = "loop" /\ pc' = "leave" /\ claimed' = claimed
    BY <1>1, EmptySeq DEF interrupt_tasks_execute
  <2>2. DOMAIN tasks_queue' = {} /\ DOMAIN tasks_queue = {}
    BY <1>1, <2>1
  <2>3. ClaimHeld'
    <3>1. \A h : Pending(h)' = {} /\ Pending(h) = {}
      BY <2>2 DEF Pending, Range
    <3>. QED BY <2>1, <3>1 DEF TasksInv, ClaimHeld
  <2>4. /\ IsInjective(tasks_queue)' /\ TasksSorted' /\ OneEach' /\ TimersFew' /\ SlotsKept'
    BY <2>2 DEF IsInjective, TasksSorted, OneEach, TimersFew, SlotsKept
  <2>. QED BY <2>3, <2>4 DEF TasksInv
<1>2. CASE tasks_queue # << >>
  <2>1. /\ pc = "loop" /\ pc' = Handler(1) /\ pc' \in Handlers
        /\ 1 \in 1..n
        /\ UNCHANGED <<tasks_buffer_head, timer, burst, irq, claimed>>
        /\ Len(tasks_queue') = n - 1
        /\ DOMAIN tasks_queue' = 1..(n - 1)
        /\ \A i \in 1..(n - 1) :
             tasks_queue'[i] = tasks_queue[i+1] /\ Handler(i)' = Handler(i+1)
    BY <1>2, TakeEffect
  <2>2. ASSUME NEW i \in 1..(n-1) PROVE i+1 \in 1..n /\ 1 < i+1
    BY <1>0
  <2>3. \A h : (\E i \in 1..n : Handler(i) = h)
                 <=> (Handler(1) = h \/ \E i \in 1..(n-1) : Handler(i)' = h)
    <3>1. ASSUME NEW i \in 1..n, i # 1 PROVE i-1 \in 1..(n-1) /\ (i-1)+1 = i
      BY <1>0, <3>1
    <3>2. ASSUME NEW i \in 1..n, i # 1
          PROVE  Handler(i) = Handler(i-1)'
      BY <2>1, <3>1, <3>2
    <3>. QED BY <2>1, <2>2, <3>1, <3>2
  <2>4. /\ \A i \in 1..n : Handler(i) \in Handlers
        /\ \A i, j \in 1..n : Handler(i) = Handler(j) /\ Handler(i) # "timer" => i = j
        /\ \A i, j \in 1..n : i < j => priority(Handler(i)) <= priority(Handler(j))
    BY <1>0 DEF TasksInv, OneEach, TasksSorted
  <2>5. IsInjective(tasks_queue)'
    <3>1. \A i, j \in 1..n : tasks_queue[i] = tasks_queue[j] => i = j
      BY <1>0 DEF TasksInv, IsInjective
    <3>2. SUFFICES ASSUME NEW i \in 1..(n-1), NEW j \in 1..(n-1),
                          tasks_queue'[i] = tasks_queue'[j]
                   PROVE  i = j
      BY <2>1 DEF IsInjective
    <3>3. i+1 = j+1
      BY <2>1, <2>2, <3>1, <3>2
    <3>. QED BY <1>0, <3>3
  <2>6. TasksSorted'
    <3>1. SUFFICES ASSUME NEW i \in 1..(n-1), NEW j \in 1..(n-1), i < j
                   PROVE  priority(Handler(i)') <= priority(Handler(j)')
      BY <2>1 DEF TasksSorted
    <3>2. i+1 \in 1..n /\ j+1 \in 1..n /\ i+1 < j+1
      BY <1>0, <3>1
    <3>. QED BY <2>1, <2>4, <3>2
  <2>7. OneEach'
    <3>1. ASSUME NEW i \in 1..(n-1) PROVE Handler(i)' \in Handlers
      BY <2>1, <2>2, <2>4
    <3>2. ASSUME NEW i \in 1..(n-1), NEW j \in 1..(n-1),
                 Handler(i)' = Handler(j)', Handler(i)' # "timer"
          PROVE  i = j
      <4>1. Handler(i+1) = Handler(j+1) /\ Handler(i+1) # "timer"
        BY <2>1, <3>2
      <4>2. i+1 = j+1
        BY <2>2, <2>4, <4>1
      <4>. QED BY <1>0, <4>2
    <3>3. ASSUME NEW i \in 1..(n-1), Handler(i)' = "syscall" PROVE pc' \in {"loop", "external"}
      <4>1. Handler(i+1) = "syscall" /\ i+1 # 1
        BY <1>0, <2>1, <3>3
      <4>2. Handler(1) # "syscall"
        BY <2>1, <2>2, <2>4, <4>1
      <4>3. priority(Handler(1)) <= priority(Handler(i+1))
        BY <2>1, <2>2, <2>4
      <4>4. Handler(1) # "timer"
        BY <4>1, <4>3 DEF priority
      <4>. QED BY <2>1, <4>2, <4>4 DEF Handlers
    <3>4. ASSUME NEW i \in 1..(n-1), Handler(i)' = "external" PROVE pc' # "external"
      <4>1. Handler(i+1) = "external" /\ i+1 # 1
        BY <1>0, <2>1, <3>4
      <4>. QED BY <2>1, <2>2, <2>4, <4>1
    <3>. QED BY <2>1, <3>1, <3>2, <3>3, <3>4 DEF OneEach
  <2>8. TimersFew'
    <3>1. SUFFICES ASSUME NEW i \in 1..(n-1), Handler(i+1) = "timer"
                   PROVE  n - 1 - i + 1 <= MaxTimers'
      BY <2>1 DEF TimersFew
    <3>2. /\ \A j \in 1..n : Handler(j) = "timer" => n - j + 1 <= MaxTimers
          /\ i+1 \in 1..n
      BY <1>0, <2>2 DEF TasksInv, TimersFew
    <3>3. Armed' = Armed
      BY <2>1 DEF Armed, Far
    <3>4. CASE Handler(1) = "timer"
      <4>1. n <= MaxTimers
        BY <1>0, <2>1, <3>2, <3>4
      <4>2. MaxTimers <= 3 - Armed /\ MaxTimers \in Int /\ Armed \in Int
        BY <2>1 DEF MaxTimers, Armed
      <4>3. MaxTimers' = 2 - Armed
        BY <2>1, <3>3, <3>4 DEF MaxTimers
      <4>4. n - 1 - i + 1 <= 2 - Armed
        BY <1>0, <4>1, <4>2
      <4>. QED BY <4>3, <4>4
    <3>5. CASE Handler(1) # "timer"
      <4>1. CallDue' <=> CallDue
        <5>1. CallDue' <=> (Handler(1) = "syscall" \/ \E j \in 1..(n-1) : Handler(j)' = "syscall")
          BY <2>1 DEF CallDue
        <5>2. CallDue <=> \E j \in 1..n : Handler(j) = "syscall"
          BY <1>0, <2>1 DEF CallDue
        <5>. QED BY <2>3, <5>1, <5>2
      <4>2. MaxTimers' = MaxTimers
        BY <2>1, <3>3, <3>5, <4>1 DEF MaxTimers, Handlers
      <4>3. n - (i+1) + 1 <= MaxTimers
        BY <3>1, <3>2
      <4>4. n - 1 - i + 1 = n - (i+1) + 1
        BY <1>0
      <4>. QED BY <4>2, <4>3, <4>4
    <3>. QED BY <3>4, <3>5
  <2>9. SlotsKept'
    <3>1. Overtakers' = Overtakers
      BY <2>1 DEF Overtakers, Handlers
    <3>2. SUFFICES ASSUME NEW i \in 1..(n-1)
                   PROVE  Age(tasks_queue[i+1], tasks_buffer_head)
                            <= n - 1 - i + (IF Handler(i+1) = "timer" THEN Overtakers ELSE 0)
      BY <2>1, <3>1 DEF SlotsKept
    <3>3. Age(tasks_queue[i+1], tasks_buffer_head)
            <= n - (i+1) + (IF Handler(i+1) = "timer" THEN Overtakers ELSE 0)
      BY <1>0, <2>2 DEF TasksInv, SlotsKept
    <3>4. n - (i+1) = n - 1 - i
      BY <1>0
    <3>. QED BY <3>3, <3>4
  <2>10. ClaimHeld'
    <3>1. (Pending("external") # {})' <=> \E i \in 1..(n-1) : Handler(i)' = "external"
      BY SMTT(40), <2>1 DEF Pending, Range, Handler
    <3>2. Pending("external") # {} <=> \E i \in 1..n : Handler(i) = "external"
      BY <1>0, PendingPosition
    <3>. QED BY <2>1, <2>3, <3>1, <3>2 DEF TasksInv, ClaimHeld
  <2>. QED BY <2>5, <2>6, <2>7, <2>8, <2>9, <2>10 DEF TasksInv
<1>. QED BY <1>1, <1>2

-----------------------------------------------------------------------------
(* The timeouts.                                                           *)

\* A timeout that is added sets the timer in time.
LEMMA ScheduleEffect ==
  ASSUME NEW entries \in Seq(Timeouts), NEW entry \in Timeouts,
         \A i, j \in DOMAIN entries : i < j => entries[i].left <= entries[j].left,
         timeout_queue' = _insert_to_timeouts_queue(entries, entry),
         _set_next_timeout(timeout_queue')
  PROVE  /\ timeout_queue' \in Seq(Timeouts)
         /\ timer' \in 0..Far
         /\ Range(timeout_queue') = Range(entries) \cup {entry}
         /\ TimeoutsSorted'
         /\ TimerArmed'
<1>. DEFINE r == _insert_to_timeouts_queue(entries, entry)
<1>1. /\ r \in Seq(Timeouts)
      /\ r # << >>
      /\ Range(r) = Range(entries) \cup {entry}
      /\ \A i, j \in DOMAIN r : i < j => r[i].left <= r[j].left
  BY TimeoutInsert, TicksAssumption
<1>. HIDE DEF r
<1>2. timeout_queue' = r /\ timer' = Head(r).left
  BY <1>1 DEF r, _set_next_timeout
<1>3. Head(r) \in Timeouts
  BY <1>1
<1>4. timer' \in 0..MaxTicks /\ timer' <= Head(r).left
  BY <1>2, <1>3, TicksAssumption DEF Timeouts
<1>5. TimerArmed'
  BY <1>2, <1>4 DEF TimerArmed
<1>6. TimeoutsSorted'
  BY <1>1, <1>2 DEF TimeoutsSorted
<1>. QED BY <1>1, <1>2, <1>4, <1>5, <1>6, TicksAssumption DEF Far

\* A sleep, or the settimeout command.
LEMMA SetTimeoutKeeps ==
  ASSUME TypeOK, TimeoutsInv, NEW id \in Fresh, NEW ticks \in 0..MaxTicks,
         NEW callback \in {"fire", "message"},
         set_timeout(id, ticks, callback), timeout_id' = timeout_id
  PROVE  /\ timeout_queue' \in Seq(Timeouts)
         /\ timer' \in 0..Far
         /\ TimeoutsInv'
<1>. DEFINE entry == [id |-> id, left |-> ticks, callback |-> callback]
<1>1. entry \in Timeouts /\ entry.callback # "reschedule"
  BY DEF Timeouts, Callbacks, Fresh
<1>. HIDE DEF entry
<1>2. /\ timeout_queue' = _insert_to_timeouts_queue(timeout_queue, entry)
      /\ _set_next_timeout(timeout_queue')
  BY DEF set_timeout, entry
<1>3. /\ timeout_queue \in Seq(Timeouts)
      /\ \A i, j \in DOMAIN timeout_queue : i < j => timeout_queue[i].left <= timeout_queue[j].left
  BY DEF TypeOK, TimeoutsInv, TimeoutsSorted
<1>4. /\ timeout_queue' \in Seq(Timeouts)
      /\ timer' \in 0..Far
      /\ Range(timeout_queue') = Range(timeout_queue) \cup {entry}
      /\ TimeoutsSorted'
      /\ TimerArmed'
  BY <1>1, <1>2, <1>3, ScheduleEffect
<1>5. OneSlice'
  BY <1>1, <1>4 DEF TimeoutsInv, OneSlice
<1>. QED BY <1>4, <1>5 DEF TimeoutsInv

\* A new time slice takes the place of the old one.
LEMMA NewSliceKeeps ==
  ASSUME TypeOK, TimeoutsInv, new_slice
  PROVE  /\ timeout_queue' \in Seq(Timeouts)
         /\ timer' \in 0..Far
         /\ timeout_id' \in Ids
         /\ TimeoutsInv'
<1>1. PICK id \in Fresh :
        /\ timeout_queue' =
             _insert_to_timeouts_queue(Without(timeout_queue, timeout_id),
               [id |-> id, left |-> Slice, callback |-> "reschedule"])
        /\ _set_next_timeout(timeout_queue')
        /\ timeout_id' = id
  BY DEF new_slice
<1>. DEFINE entry == [id |-> id, left |-> Slice, callback |-> "reschedule"]
            rest == Without(timeout_queue, timeout_id)
<1>2. entry \in Timeouts /\ entry.id = id
  BY TicksAssumption DEF Timeouts, Callbacks, Fresh
<1>3. /\ timeout_queue \in Seq(Timeouts)
      /\ \A i, j \in DOMAIN timeout_queue : i < j => timeout_queue[i].left <= timeout_queue[j].left
  BY DEF TypeOK, TimeoutsInv, TimeoutsSorted
<1>4. /\ rest \in Seq(Timeouts)
      /\ Range(rest) = {e \in Range(timeout_queue) : e.id # timeout_id}
      /\ \A i, j \in DOMAIN rest : i < j => rest[i].left <= rest[j].left
  BY <1>3, TimeoutWithout, TicksAssumption
<1>. HIDE DEF entry, rest
<1>5. timeout_queue' = _insert_to_timeouts_queue(rest, entry)
  BY <1>1 DEF rest, entry
<1>6. /\ timeout_queue' \in Seq(Timeouts)
      /\ timer' \in 0..Far
      /\ Range(timeout_queue') = Range(rest) \cup {entry}
      /\ TimeoutsSorted'
      /\ TimerArmed'
  BY <1>1, <1>2, <1>4, <1>5, ScheduleEffect
<1>7. OneSlice'
  <2>1. SUFFICES ASSUME NEW e \in Range(timeout_queue'), e.callback = "reschedule"
                 PROVE  e.id = timeout_id'
    BY DEF OneSlice
  <2>2. e \notin Range(rest)
    BY <1>4, <2>1 DEF TimeoutsInv, OneSlice
  <2>. QED BY <1>1, <1>2, <1>6, <2>2
<1>. QED BY <1>1, <1>6, <1>7 DEF TimeoutsInv, Fresh

\* A step that leaves the timeouts and the timer alone and loses no timer
\* task.
LEMMA TimeoutsSame ==
  ASSUME TimeoutsInv, UNCHANGED <<timeout_queue, timeout_id>>,
         \/ UNCHANGED timer
         \/ (\E i \in DOMAIN tasks_queue' : Handler(i)' = "timer"),
         (\E i \in DOMAIN tasks_queue : Handler(i) = "timer") \/ pc \in {"timer", "expire", "message"} =>
           (\E i \in DOMAIN tasks_queue' : Handler(i)' = "timer") \/ pc' \in {"timer", "expire", "message"}
  PROVE  TimeoutsInv'
<1>1. (\E i \in DOMAIN tasks_queue' : Handler(i)' = "timer") <=> (Pending("timer") # {})'
  BY DEF Pending, Range, Handler
<1>2. (\E i \in DOMAIN tasks_queue : Handler(i) = "timer") <=> Pending("timer") # {}
  BY PendingPosition
<1>3. TimerArmed'
  <2>1. CASE UNCHANGED timer
    BY <1>1, <1>2, <2>1 DEF TimeoutsInv, TimerArmed
  <2>2. CASE \E i \in DOMAIN tasks_queue' : Handler(i)' = "timer"
    BY <1>1, <2>2 DEF TimerArmed
  <2>. QED BY <2>1, <2>2
<1>4. TimeoutsSorted' /\ OneSlice'
  BY DEF TimeoutsInv, TimeoutsSorted, OneSlice
<1>. QED BY <1>3, <1>4 DEF TimeoutsInv

\* Time passes for the timer and all the timeouts.
LEMMA TickKeeps ==
  ASSUME TypeOK, TimeoutsInv, Tick
  PROVE  /\ timeout_queue' \in Seq(Timeouts)
         /\ timer' \in 0..Far
         /\ TimeoutsInv'
<1>. DEFINE n == Len(timeout_queue)
<1>0. /\ n \in Nat /\ DOMAIN timeout_queue = 1..n
      /\ \A i \in 1..n : timeout_queue[i] \in Timeouts
      /\ MaxTicks \in Nat /\ timer \in 0..Far
  BY LenProperties, TicksAssumption DEF TypeOK
<1>1. /\ timer' = IF timer \in 1..MaxTicks THEN timer - 1 ELSE timer
      /\ timeout_queue' = [i \in 1..n |->
           [timeout_queue[i] EXCEPT !.left = IF timeout_queue[i].left > 0
                                             THEN timeout_queue[i].left - 1 ELSE 0]]
      /\ UNCHANGED <<pc, intr, timeout_id>>
  BY <1>0 DEF Tick
<1>2. ASSUME NEW i \in 1..n
      PROVE  /\ timeout_queue'[i] \in Timeouts
             /\ timeout_queue'[i].id = timeout_queue[i].id
             /\ timeout_queue'[i].callback = timeout_queue[i].callback
             /\ timeout_queue'[i].left = IF timeout_queue[i].left > 0
                                         THEN timeout_queue[i].left - 1 ELSE 0
  BY <1>0, <1>1 DEF Timeouts
<1>3. timeout_queue' \in Seq(Timeouts) /\ Len(timeout_queue') = n /\ DOMAIN timeout_queue' = 1..n
  <2>1. timeout_queue' \in [1..n -> Timeouts]
    BY <1>1, <1>2
  <2>2. timeout_queue' \in Seq(Timeouts)
    BY <1>0, <2>1, SeqDef
  <2>. QED BY <1>0, <2>1, <2>2, LenProperties
<1>4. timer' \in 0..Far
  BY <1>0, <1>1 DEF Far
<1>5. \A i \in 1..n : timeout_queue[i].left \in 0..MaxTicks
  BY <1>0 DEF Timeouts
<1>6. TimeoutsSorted'
  <2>1. SUFFICES ASSUME NEW i \in 1..n, NEW j \in 1..n, i < j
                 PROVE  timeout_queue'[i].left <= timeout_queue'[j].left
    BY <1>3 DEF TimeoutsSorted
  <2>2. timeout_queue[i].left <= timeout_queue[j].left
    BY <1>0, <2>1 DEF TimeoutsInv, TimeoutsSorted
  <2>3. timeout_queue[i].left \in Nat /\ timeout_queue[j].left \in Nat
    BY <1>0, <1>5
  <2>4. /\ timeout_queue'[i].left = IF timeout_queue[i].left > 0
                                   THEN timeout_queue[i].left - 1 ELSE 0
        /\ timeout_queue'[j].left = IF timeout_queue[j].left > 0
                                   THEN timeout_queue[j].left - 1 ELSE 0
    BY <1>2
  <2>. QED BY <2>2, <2>3, <2>4
<1>7. TimerArmed'
  <2>1. SUFFICES ASSUME timeout_queue' # << >>
                 PROVE  \/ timer' <= Head(timeout_queue').left
                        \/ Pending("timer")' # {}
                        \/ pc' \in {"timer", "expire", "message"}
    BY DEF TimerArmed
  <2>2. 1 \in 1..n /\ timeout_queue # << >>
    BY <1>0, <1>3, <2>1
  <2>3. Head(timeout_queue') = timeout_queue'[1] /\ Head(timeout_queue) = timeout_queue[1]
    BY <1>0, <1>3, <2>1, <2>2
  <2>4. CASE timer <= timeout_queue[1].left
    <3>1. timer \in 0..MaxTicks
      BY <1>0, <1>5, <2>2, <2>4 DEF Far
    <3>2. CASE timer = 0
      <4>1. timer' = 0 /\ timeout_queue'[1].left >= 0
        BY <1>0, <1>1, <1>2, <1>5, <2>2, <3>2
      <4>. QED BY <2>3, <4>1
    <3>3. CASE timer # 0
      <4>1. timer' = timer - 1 /\ timeout_queue'[1].left = timeout_queue[1].left - 1
        BY <1>0, <1>1, <1>2, <1>5, <2>2, <2>4, <3>1, <3>3
      <4>2. timer - 1 <= timeout_queue[1].left - 1
        BY <1>0, <1>5, <2>2, <2>4, <3>1
      <4>. QED BY <2>3, <4>1, <4>2
    <3>. QED BY <3>2, <3>3
  <2>5. CASE Pending("timer") # {} \/ pc \in {"timer", "expire", "message"}
    BY <1>1, <2>5 DEF Pending, intr
  <2>. QED BY <2>2, <2>3, <2>4, <2>5 DEF TimeoutsInv, TimerArmed
<1>8. OneSlice'
  <2>1. SUFFICES ASSUME NEW i \in 1..n, timeout_queue'[i].callback = "reschedule"
                 PROVE  timeout_queue'[i].id = timeout_id
    BY <1>1, <1>3 DEF OneSlice, Range
  <2>. QED BY <1>0, <1>2, <2>1 DEF TimeoutsInv, OneSlice, Range
<1>. QED BY <1>3, <1>4, <1>6, <1>7, <1>8 DEF TimeoutsInv

-----------------------------------------------------------------------------
(* The invariant.                                                          *)

\* The empty queues of a booting kernel.
LEMMA InitInv ==
  ASSUME Init
  PROVE  IInv
<1>1. 0 \in Slots /\ Far \in 0..Far /\ 0 \in 0..MaxBurst
  BY BufferAssumption, TicksAssumption, BurstAssumption DEF Slots, Far
<1>2. << >> \in Seq(Slots) /\ << >> \in Seq(Timeouts)
  OBVIOUS
<1>3. TypeOK
  BY <1>1, <1>2 DEF Init, TypeOK, Labels, Handlers
<1>4. DOMAIN tasks_queue = {} /\ DOMAIN timeout_queue = {} /\ Range(timeout_queue) = {}
      /\ Range(tasks_queue) = {}
  BY DEF Init, Range
<1>5. TasksInv
  <2>1. ClaimHeld
    BY <1>4 DEF Init, ClaimHeld, Pending
  <2>2. /\ IsInjective(tasks_queue) /\ TasksSorted /\ OneEach /\ TimersFew /\ SlotsKept
    BY <1>4 DEF IsInjective, TasksSorted, OneEach, TimersFew, SlotsKept
  <2>. QED BY <2>1, <2>2 DEF TasksInv
<1>6. TimeoutsInv
  BY <1>4 DEF TimeoutsInv, TimeoutsSorted, TimerArmed, OneSlice, Init
<1>. QED BY <1>3, <1>5, <1>6 DEF IInv

\* The three kinds of trap.
LEMMA TrapStep ==
  ASSUME IInv, Enough, NEW h \in Handlers, interrupt_tasks_add(h), Enter,
         UNCHANGED <<timeout_queue, due, timeout_id, need_reschedule, irq, burst>>,
         timer' = IF h = "timer" THEN Far ELSE timer,
         claimed' = (claimed \/ h = "external"),
         h = "timer" => timer # Far,
         h = "external" => irq /\ ~ claimed,
         h = "syscall" => pc = "run"
  PROVE  IInv'
<1>1. PICK p : Added(h, p)
  BY AddEffect DEF IInv
<1>2. /\ Len(tasks_queue) \in Nat /\ DOMAIN tasks_queue = 1..Len(tasks_queue)
  BY Typing DEF IInv
<1>3. /\ tasks_queue' \in Seq(Slots)
      /\ tasks_buffer' \in [Slots -> Handlers \cup {"done"}]
      /\ tasks_buffer_head' \in Slots
      /\ p \in 1..(Len(tasks_queue) + 1)
      /\ DOMAIN tasks_queue' = 1..(Len(tasks_queue) + 1)
      /\ \A j \in 1..(Len(tasks_queue) + 1) :
           Handler(j)' = IF j < p THEN Handler(j)
                         ELSE IF j = p THEN h ELSE Handler(j-1)
  BY <1>1 DEF Added
<1>4. TypeOK'
  <2>1. pc' \in Labels
    BY DEF Enter, IInv, TypeOK, Labels
  <2>2. timer' \in 0..Far
    BY TicksAssumption DEF IInv, TypeOK, Far
  <2>. QED BY <1>3, <2>1, <2>2 DEF IInv, TypeOK
<1>5. TasksInv'
  BY <1>4, AddKeeps DEF IInv
<1>6. TimeoutsInv'
  <2>1. h = "timer" => \E i \in DOMAIN tasks_queue' : Handler(i)' = "timer"
    BY <1>3
  <2>2. h # "timer" => UNCHANGED timer
    OBVIOUS
  <2>3. ASSUME NEW j \in DOMAIN tasks_queue, Handler(j) = "timer"
        PROVE  \E i \in DOMAIN tasks_queue' : Handler(i)' = "timer"
    <3>1. CASE j < p
      BY <1>2, <1>3, <2>3, <3>1
    <3>2. CASE ~ (j < p)
      <4>1. j+1 \in 1..(Len(tasks_queue) + 1) /\ ~ (j+1 < p) /\ j+1 # p /\ (j+1)-1 = j
        BY <1>2, <1>3, <3>2
      <4>2. Handler(j+1)' = Handler((j+1)-1)
        BY <1>3, <4>1
      <4>. QED BY <1>3, <2>3, <4>1, <4>2
    <3>. QED BY <3>1, <3>2
  <2>4. pc \in {"timer", "expire", "message"} => pc' \in {"timer", "expire", "message"}
    BY DEF Enter
  <2>. QED BY <2>1, <2>2, <2>3, <2>4, TimeoutsSame DEF IInv
<1>. QED BY <1>4, <1>5, <1>6 DEF IInv

\* Each trap adds a task that may come then.
LEMMA TrapsKeep ==
  ASSUME IInv, Enough, TimerTrap \/ ExternalTrap \/ SyscallTrap
  PROVE  IInv'
<1>1. CASE TimerTrap
  <2>1. timer # Far
    BY <1>1, Typing DEF TimerTrap, IInv
  <2>2. claimed' = (claimed \/ "timer" = "external")
    BY <1>1 DEF TimerTrap, IInv, TypeOK
  <2>. QED BY <1>1, <2>1, <2>2, TrapStep DEF TimerTrap, Handlers
<1>2. CASE ExternalTrap
  BY <1>2, TrapStep DEF ExternalTrap, Handlers
<1>3. CASE SyscallTrap
  <2>1. claimed' = (claimed \/ "syscall" = "external")
    BY <1>3 DEF SyscallTrap, IInv, TypeOK
  <2>. QED BY <1>3, <2>1, TrapStep DEF SyscallTrap, Handlers
<1>. QED BY <1>1, <1>2, <1>3

\* The session takes its next task, or ends.
LEMMA ExecuteStep ==
  ASSUME IInv, interrupt_tasks_execute
  PROVE  IInv'
<1>0. /\ TypeOK /\ TasksInv /\ TimeoutsInv
      /\ UNCHANGED <<tasks_buffer_head, timeout_queue, timer, due, timeout_id,
                     need_reschedule, irq, claimed>>
      /\ Len(tasks_queue) \in Nat /\ DOMAIN tasks_queue = 1..Len(tasks_queue)
  BY Typing DEF IInv, interrupt_tasks_execute
<1>1. TasksInv'
  BY <1>0, ExecuteKeeps
<1>2. CASE tasks_queue = << >>
  <2>1. /\ UNCHANGED <<tasks_queue, tasks_buffer>> /\ pc = "loop" /\ pc' = "leave" /\ burst' = 0
    BY <1>2 DEF interrupt_tasks_execute
  <2>2. TypeOK'
    BY <1>0, <2>1, BurstAssumption DEF TypeOK, Labels
  <2>3. TimeoutsInv'
    <3>1. DOMAIN tasks_queue = {}
      BY <1>2
    <3>. QED BY <1>0, <2>1, <3>1, TimeoutsSame
  <2>. QED BY <1>1, <2>2, <2>3 DEF IInv
<1>3. CASE tasks_queue # << >>
  <2>1. /\ pc = "loop" /\ pc' = Handler(1) /\ pc' \in Handlers
        /\ burst' = burst
        /\ tasks_buffer' \in [Slots -> Handlers \cup {"done"}]
        /\ tasks_queue' \in Seq(Slots)
        /\ DOMAIN tasks_queue' = 1..(Len(tasks_queue) - 1)
        /\ \A i \in 1..(Len(tasks_queue) - 1) : Handler(i)' = Handler(i+1)
    BY <1>0, <1>3, TakeEffect
  <2>2. TypeOK'
    BY <1>0, <2>1 DEF TypeOK, Labels
  <2>3. ASSUME NEW j \in DOMAIN tasks_queue, Handler(j) = "timer"
        PROVE  (\E i \in DOMAIN tasks_queue' : Handler(i)' = "timer") \/ pc' = "timer"
    <3>1. CASE j = 1
      BY <2>1, <2>3, <3>1
    <3>2. CASE j # 1
      <4>1. j-1 \in 1..(Len(tasks_queue) - 1) /\ (j-1)+1 = j
        BY <1>0, <3>2
      <4>2. Handler(j-1)' = Handler((j-1)+1)
        BY <2>1, <4>1
      <4>. QED BY <2>1, <2>3, <4>1, <4>2
    <3>. QED BY <3>1, <3>2
  <2>4. TimeoutsInv'
    BY <1>0, <2>1, <2>3, TimeoutsSame
  <2>. QED BY <1>1, <2>2, <2>4 DEF IInv
<1>. QED BY <1>2, <1>3

\* What the tasks do, and the end of the session.
LEMMA HandlersStep ==
  ASSUME IInv,
         \/ syscall_handler
         \/ _interrupt_external_handler
         \/ TimerRead
         \/ TimerExpire
         \/ TimerDone
         \/ Leave
  PROVE  IInv'
<1>0. TypeOK /\ TasksInv /\ TimeoutsInv
  BY DEF IInv
<1>1. TasksInv'
  BY <1>0, HandlersKeep
<1>2. UNCHANGED intr /\ UNCHANGED burst
  BY DEF syscall_handler, _interrupt_external_handler, TimerRead, TimerExpire,
         TimerDone, Leave, intr
<1>3. \A i : Handler(i)' = Handler(i)
  BY <1>2 DEF intr, Handler
<1>4. tasks_queue' = tasks_queue /\ tasks_buffer' = tasks_buffer
      /\ tasks_buffer_head' = tasks_buffer_head
  BY <1>2 DEF intr
<1>5. timeout_queue \in Seq(Timeouts) /\ DOMAIN timeout_queue = 1..Len(timeout_queue)
      /\ Len(timeout_queue) \in Nat
      /\ \A i \in 1..Len(timeout_queue) : timeout_queue[i] \in Timeouts
  BY <1>0, LenProperties DEF TypeOK
<1>6. CASE syscall_handler
  <2>1. /\ pc = "syscall" /\ pc' = "loop"
        /\ UNCHANGED <<due, timeout_id, irq, claimed>>
    BY <1>6 DEF syscall_handler
  <2>2. CASE \E id \in Fresh, ticks \in 0..MaxTicks : set_timeout(id, ticks, "fire")
    <3>1. need_reschedule' \in BOOLEAN
      BY <1>0, <1>6 DEF syscall_handler, TypeOK
    <3>2. timeout_queue' \in Seq(Timeouts) /\ timer' \in 0..Far /\ TimeoutsInv'
      BY <1>0, <2>1, <2>2, SetTimeoutKeeps
    <3>3. TypeOK'
      BY <1>0, <1>2, <1>4, <2>1, <3>1, <3>2 DEF TypeOK, Labels
    <3>. QED BY <1>1, <3>2, <3>3 DEF IInv
  <2>3. CASE /\ need_reschedule' \in {TRUE, need_reschedule}
             /\ UNCHANGED <<timeout_queue, timer>>
    <3>1. TypeOK'
      BY <1>0, <1>2, <1>4, <2>1, <2>3 DEF TypeOK, Labels
    <3>2. TimeoutsInv'
      BY <1>0, <1>3, <1>4, <2>1, <2>3, TimeoutsSame
    <3>. QED BY <1>1, <3>1, <3>2 DEF IInv
  <2>. QED BY <1>6, <2>2, <2>3 DEF syscall_handler
<1>7. CASE _interrupt_external_handler
  <2>1. /\ pc = "external" /\ pc' = "loop" /\ irq' = FALSE /\ claimed' = FALSE
        /\ UNCHANGED <<timeout_queue, timer, due, timeout_id, need_reschedule>>
    BY <1>7 DEF _interrupt_external_handler
  <2>2. TypeOK'
    BY <1>0, <1>2, <1>4, <2>1 DEF TypeOK, Labels
  <2>3. TimeoutsInv'
    BY <1>0, <1>3, <1>4, <2>1, TimeoutsSame
  <2>. QED BY <1>1, <2>2, <2>3 DEF IInv
<1>8. CASE TimerRead
  <2>1. /\ pc = "timer" /\ pc' = "expire"
        /\ UNCHANGED <<timeout_queue, timer, timeout_id, need_reschedule, irq, claimed>>
        /\ due' = {e.id : e \in {x \in Range(timeout_queue) : x.left = 0}}
    BY <1>8 DEF TimerRead
  <2>2. due' \in SUBSET Ids
    BY <1>5, <2>1 DEF Range, Timeouts
  <2>3. TypeOK'
    BY <1>0, <1>2, <1>4, <2>1, <2>2 DEF TypeOK, Labels
  <2>4. TimeoutsInv'
    BY <1>0, <1>3, <1>4, <2>1, TimeoutsSame
  <2>. QED BY <1>1, <2>3, <2>4 DEF IInv
<1>9. CASE TimerExpire
  <2>1. /\ pc = "expire" /\ timeout_queue # << >> /\ timeout_queue' = Tail(timeout_queue)
        /\ pc' \in {"expire", "message"}
        /\ UNCHANGED <<timer, due, timeout_id, irq, claimed>>
    BY <1>9 DEF TimerExpire, HeadDue
  <2>a. need_reschedule' \in BOOLEAN
    BY <1>0, <1>9 DEF TimerExpire, TypeOK
  <2>2. /\ timeout_queue' \in Seq(Timeouts)
        /\ DOMAIN timeout_queue' = 1..(Len(timeout_queue) - 1)
        /\ \A i \in 1..(Len(timeout_queue) - 1) :
             /\ timeout_queue'[i] = timeout_queue[i+1]
             /\ i+1 \in 1..Len(timeout_queue)
    BY <1>5, <2>1
  <2>3. TypeOK'
    BY <1>0, <1>2, <1>4, <2>1, <2>2, <2>a DEF TypeOK, Labels
  <2>4. TimeoutsSorted'
    <3>1. SUFFICES ASSUME NEW i \in 1..(Len(timeout_queue) - 1),
                          NEW j \in 1..(Len(timeout_queue) - 1), i < j
                   PROVE  timeout_queue'[i].left <= timeout_queue'[j].left
      BY <2>2 DEF TimeoutsSorted
    <3>2. i+1 < j+1
      BY <1>5, <3>1
    <3>. QED BY <1>0, <1>5, <2>2, <3>2 DEF TimeoutsInv, TimeoutsSorted
  <2>5. TimerArmed'
    BY <2>1 DEF TimerArmed
  <2>6. OneSlice'
    <3>1. Range(timeout_queue') \subseteq Range(timeout_queue)
      BY <1>5, <2>2 DEF Range
    <3>. QED BY <1>0, <2>1, <3>1 DEF TimeoutsInv, OneSlice
  <2>. QED BY <1>1, <2>3, <2>4, <2>5, <2>6 DEF IInv, TimeoutsInv
<1>10. CASE TimerDone
  <2>1. /\ pc = "expire" /\ pc' = "loop" /\ due' = {}
        /\ UNCHANGED <<timeout_queue, timeout_id, need_reschedule, irq, claimed>>
        /\ timer' = IF timeout_queue = << >> THEN Far ELSE Head(timeout_queue).left
    BY <1>10 DEF TimerDone, _set_next_timeout
  <2>2. timeout_queue # << >> => /\ timer' \in 0..MaxTicks
                                 /\ timer' <= Head(timeout_queue).left
    <3>1. SUFFICES ASSUME timeout_queue # << >>
                   PROVE  timer' \in 0..MaxTicks /\ timer' <= Head(timeout_queue).left
      OBVIOUS
    <3>2. Head(timeout_queue) \in Timeouts
      BY <1>5, <3>1
    <3>. QED BY <2>1, <3>1, <3>2, TicksAssumption DEF Timeouts
  <2>3. timer' \in 0..Far
    BY <2>1, <2>2, TicksAssumption DEF Far
  <2>4. TypeOK'
    BY <1>0, <1>2, <1>4, <2>1, <2>3 DEF TypeOK, Labels
  <2>5. TimerArmed'
    BY <2>1, <2>2 DEF TimerArmed
  <2>6. TimeoutsSorted' /\ OneSlice'
    BY <1>0, <2>1 DEF TimeoutsInv, TimeoutsSorted, OneSlice
  <2>. QED BY <1>1, <2>4, <2>5, <2>6 DEF IInv, TimeoutsInv
<1>11. CASE Leave
  <2>1. /\ pc = "leave" /\ pc' = "run" /\ need_reschedule' = FALSE
        /\ UNCHANGED <<due, irq, claimed>>
    BY <1>11 DEF Leave
  <2>2. CASE new_slice
    <3>1. /\ timeout_queue' \in Seq(Timeouts) /\ timer' \in 0..Far
          /\ timeout_id' \in Ids /\ TimeoutsInv'
      BY <1>0, <2>2, NewSliceKeeps
    <3>2. TypeOK'
      BY <1>0, <1>2, <1>4, <2>1, <3>1 DEF TypeOK, Labels
    <3>. QED BY <1>1, <3>1, <3>2 DEF IInv
  <2>3. CASE UNCHANGED <<timeout_queue, timer, timeout_id>>
    <3>1. TypeOK'
      BY <1>0, <1>2, <1>4, <2>1, <2>3 DEF TypeOK, Labels
    <3>2. TimeoutsInv'
      BY <1>0, <1>3, <1>4, <2>1, <2>3, TimeoutsSame
    <3>. QED BY <1>1, <3>1, <3>2 DEF IInv
  <2>. QED BY <1>11, <2>2, <2>3 DEF Leave
<1>. QED BY <1>6, <1>7, <1>8, <1>9, <1>10, <1>11

\* What a program does without a trap, the clock and the UART.
LEMMA OutsideStep ==
  ASSUME IInv, Yield \/ command_settimeout \/ Tick \/ UartRequest
  PROVE  IInv'
<1>0. TypeOK /\ TasksInv /\ TimeoutsInv
  BY DEF IInv
<1>1. TasksInv'
  BY <1>0, OutsideKeeps
<1>2. /\ UNCHANGED <<pc, due, need_reschedule, claimed, tasks_queue, tasks_buffer,
                     tasks_buffer_head>>
  BY DEF Yield, command_settimeout, Tick, UartRequest, intr
<1>3. \A i : Handler(i)' = Handler(i)
  BY <1>2 DEF Handler
<1>4. CASE Yield
  <2>1. /\ timeout_queue' \in Seq(Timeouts) /\ timer' \in 0..Far
        /\ timeout_id' \in Ids /\ TimeoutsInv'
    BY <1>0, <1>4, NewSliceKeeps DEF Yield
  <2>2. TypeOK'
    BY <1>0, <1>2, <1>4, <2>1 DEF TypeOK, Yield
  <2>. QED BY <1>1, <2>1, <2>2 DEF IInv
<1>5. CASE command_settimeout
  <2>1. timeout_queue' \in Seq(Timeouts) /\ timer' \in 0..Far /\ TimeoutsInv'
    BY <1>0, <1>5, SetTimeoutKeeps DEF command_settimeout
  <2>2. TypeOK'
    BY <1>0, <1>2, <1>5, <2>1 DEF TypeOK, command_settimeout
  <2>. QED BY <1>1, <2>1, <2>2 DEF IInv
<1>6. CASE Tick
  <2>1. timeout_queue' \in Seq(Timeouts) /\ timer' \in 0..Far /\ TimeoutsInv'
    BY <1>0, <1>6, TickKeeps
  <2>2. TypeOK'
    BY <1>0, <1>2, <1>6, <2>1 DEF TypeOK, Tick
  <2>. QED BY <1>1, <2>1, <2>2 DEF IInv
<1>7. CASE UartRequest
  <2>1. UNCHANGED <<timeout_queue, timer, timeout_id>> /\ irq' = TRUE /\ burst' \in 0..MaxBurst
    BY <1>0, <1>7, BurstAssumption DEF UartRequest, TypeOK
  <2>2. TypeOK'
    BY <1>0, <1>2, <2>1 DEF TypeOK
  <2>3. TimeoutsInv'
    BY <1>0, <1>2, <1>3, <2>1, TimeoutsSame
  <2>. QED BY <1>1, <2>2, <2>3 DEF IInv
<1>. QED BY <1>4, <1>5, <1>6, <1>7

\* Every reachable state satisfies the invariant.
THEOREM Invariance ==
  ASSUME Enough
  PROVE  Spec => []IInv
<1>1. Init => IInv
  BY InitInv
<1>2. ASSUME IInv, [Next]_vars
      PROVE  IInv'
  <2>1. CASE TimerTrap \/ ExternalTrap \/ SyscallTrap
    BY <1>2, <2>1, TrapsKeep
  <2>2. CASE interrupt_tasks_execute
    BY <1>2, <2>2, ExecuteStep
  <2>3. CASE syscall_handler \/ _interrupt_external_handler \/ TimerRead
               \/ TimerExpire \/ TimerDone \/ Leave
    BY <1>2, <2>3, HandlersStep
  <2>4. CASE Yield \/ command_settimeout \/ Tick \/ UartRequest
    BY <1>2, <2>4, OutsideStep
  <2>5. CASE MessageLoops \/ UNCHANGED vars
    <3>1. UNCHANGED <<pc, tasks_buffer, tasks_buffer_head, tasks_queue, timeout_queue,
                      timer, due, timeout_id, need_reschedule, irq, burst, claimed>>
      BY <2>5 DEF MessageLoops, vars, intr
    <3>2. TypeOK'
      BY <1>2, <3>1 DEF IInv, TypeOK
    <3>3. TasksInv'
      BY <1>2, <3>1 DEF IInv, TasksInv, TasksSorted, OneEach, TimersFew, SlotsKept,
                        ClaimHeld, Handler, MaxTimers, Armed, CallDue, Overtakers,
                        Pending
    <3>4. TimeoutsInv'
      BY <1>2, <3>1 DEF IInv, TimeoutsInv, TimeoutsSorted, TimerArmed, OneSlice, Pending
    <3>. QED BY <3>2, <3>3, <3>4 DEF IInv
  <2>. QED BY <1>2, <2>1, <2>2, <2>3, <2>4, <2>5 DEF Next, Session
<1>. QED BY <1>1, <1>2, PTL DEF Spec

-----------------------------------------------------------------------------
(* The properties.                                                         *)

\* No pending interrupt task is overwritten: the slot interrupt_tasks_add takes
\* next is free.
THEOREM TasksAreIntact ==
  ASSUME Enough
  PROVE  Spec => []TasksIntact
<1>0. Spec => []IInv
  BY Invariance
<1>1. IInv => TasksIntact
  BY SlotFree DEF IInv, TasksInv, TasksIntact
<1>. QED BY <1>0, <1>1, PTL

\* The timer is set for the first timeout, or a timer task is to set it.
THEOREM TimerIsArmed ==
  ASSUME Enough
  PROVE  Spec => []TimerArmed
<1>0. Spec => []IInv
  BY Invariance
<1>1. IInv => TimerArmed
  BY DEF IInv, TimeoutsInv
<1>. QED BY <1>0, <1>1, PTL

\* Both queues are in order.
THEOREM QueuesAreOrdered ==
  ASSUME Enough
  PROVE  Spec => []QueuesOrdered
<1>0. Spec => []IInv
  BY Invariance
<1>1. IInv => QueuesOrdered
  BY DEF IInv, TimeoutsInv, TasksInv, QueuesOrdered, TimeoutsSorted, TasksSorted, Handler
<1>. QED BY <1>0, <1>1, PTL

\* An interrupt handed out by the PLIC is taken care of by one task.
THEOREM ClaimIsHeld ==
  ASSUME Enough
  PROVE  Spec => []ClaimHeld
<1>0. Spec => []IInv
  BY Invariance
<1>1. IInv => ClaimHeld
  BY DEF IInv, TasksInv
<1>. QED BY <1>0, <1>1, PTL

\* There is one time slice at a time.
THEOREM OneSliceOnly ==
  ASSUME Enough
  PROVE  Spec => []OneSlice
<1>0. Spec => []IInv
  BY Invariance
<1>1. IInv => OneSlice
  BY DEF IInv, TimeoutsInv
<1>. QED BY <1>0, <1>1, PTL

=============================================================================
