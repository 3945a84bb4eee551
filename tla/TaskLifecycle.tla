--------------------------- MODULE TaskLifecycle ---------------------------
(***************************************************************************)
(* What the scheduler promises about the life of a task, without queues,   *)
(* interrupts or threads: a task is created ready, at most one task runs,  *)
(* only the running one can begin to wait, and a killed task is freed once *)
(* and never seen again.                                                   *)
(***************************************************************************)
EXTENDS Naturals

CONSTANTS
  Task,      \* identities of tasks
  Initial    \* the tasks there are from the start

VARIABLE life

Stages == {"NONE", "READY", "RUNNING", "WAITING", "KILLED", "FREED"}
Alive  == {"READY", "RUNNING", "WAITING"}

TypeOK == life \in [Task -> Stages]

Init == life = [t \in Task |-> IF t \in Initial THEN "READY" ELSE "NONE"]

Create(t) ==
  /\ life[t] = "NONE"
  /\ life' = [life EXCEPT ![t] = "READY"]

\* The running task, if there is one, makes room for t.
Dispatch(t) ==
  /\ life[t] = "READY"
  /\ life' = [u \in Task |-> IF u = t THEN "RUNNING"
                             ELSE IF life[u] = "RUNNING" THEN "READY"
                             ELSE life[u]]

Block(t) ==
  /\ life[t] = "RUNNING"
  /\ life' = [life EXCEPT ![t] = "WAITING"]

Wake(S) ==
  /\ \A t \in S : life[t] = "WAITING"
  /\ life' = [t \in Task |-> IF t \in S THEN "READY" ELSE life[t]]

\* The end of t wakes the tasks S that waited for it.
Kill(t, S) ==
  /\ life[t] \in Alive
  /\ \A u \in S : life[u] = "WAITING" /\ u # t
  /\ life' = [u \in Task |-> IF u = t THEN "KILLED"
                             ELSE IF u \in S THEN "READY"
                             ELSE life[u]]

Free(t) ==
  /\ life[t] = "KILLED"
  /\ life' = [life EXCEPT ![t] = "FREED"]

Next ==
  \/ \E t \in Task : Create(t) \/ Dispatch(t) \/ Block(t) \/ Free(t)
  \/ \E S \in SUBSET Task : Wake(S)
  \/ \E t \in Task, S \in SUBSET Task : Kill(t, S)

Spec == Init /\ [][Next]_life

=============================================================================
