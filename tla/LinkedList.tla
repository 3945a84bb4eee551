----------------------------- MODULE LinkedList -----------------------------
(***************************************************************************)
(* ds/linked_list.c at the level of its pointers, beside the sequences by  *)
(* which the other modules stand for its lists (see Queues).  A node is in *)
(* one list at most; the callers insert only nodes that are in none, and   *)
(* the memory of a node that was never in a list holds anything.           *)
(***************************************************************************)
EXTENDS Queues

CONSTANTS Nodes, Lists, Null

ASSUME NullAssumption == Null \notin Nodes

VARIABLES
  head, tail,   \* of each list
  next, prev,   \* of each node
  seq           \* the sequence each list stands for

vars == <<head, tail, next, prev, seq>>

Pointers == Nodes \cup {Null}

TypeOK ==
  /\ head \in [Lists -> Pointers]
  /\ tail \in [Lists -> Pointers]
  /\ next \in [Nodes -> Pointers]
  /\ prev \in [Nodes -> Pointers]
  /\ seq \in [Lists -> Seq(Nodes)]

\* Lists after linked_list_init, nodes in memory that holds anything.
Init ==
  /\ head = [l \in Lists |-> Null]
  /\ tail = [l \in Lists |-> Null]
  /\ next \in [Nodes -> Pointers]
  /\ prev \in [Nodes -> Pointers]
  /\ seq = [l \in Lists |-> << >>]

Linked(n) == \E l \in Lists : n \in Range(seq[l])

Insert(l, n) ==
  /\ ~ Linked(n)
  /\ next' = [x \in Nodes |->
       IF x = n THEN Null ELSE IF x = tail[l] /\ head[l] # Null THEN n ELSE next[x]]
  /\ prev' = [prev EXCEPT ![n] = IF head[l] = Null THEN Null ELSE tail[l]]
  /\ tail' = [tail EXCEPT ![l] = n]
  /\ head' = [head EXCEPT ![l] = IF @ = Null THEN n ELSE @]
  /\ seq' = [seq EXCEPT ![l] = linked_list_insert(@, n)]

\* Faulty variant: the list keeps its head when the node is put before it.
InsertBeforeKeepHead(l, n, before) ==
  /\ ~ Linked(n)
  /\ before \in Range(seq[l])
  /\ next' = [x \in Nodes |->
       IF x = n THEN before ELSE IF x = prev[before] THEN n ELSE next[x]]
  /\ prev' = [prev EXCEPT ![n] = prev[before], ![before] = n]
  /\ seq' = [seq EXCEPT ![l] = linked_list_insert_before(@, n, before)]
  /\ UNCHANGED <<head, tail>>

InsertBefore(l, n, before) ==
  /\ ~ Linked(n)
  /\ before \in Range(seq[l])
  /\ next' = [x \in Nodes |->
       IF x = n THEN before ELSE IF x = prev[before] THEN n ELSE next[x]]
  /\ prev' = [prev EXCEPT ![n] = prev[before], ![before] = n]
  /\ head' = [head EXCEPT ![l] = IF prev[before] = Null THEN n ELSE @]
  /\ seq' = [seq EXCEPT ![l] = linked_list_insert_before(@, n, before)]
  /\ UNCHANGED tail

\* linked_list_remove.
Unlink(l, n) ==
  /\ next' = [x \in Nodes |->
       IF x = n THEN Null ELSE IF x = prev[n] THEN next[n] ELSE next[x]]
  /\ prev' = [x \in Nodes |->
       IF x = n THEN Null ELSE IF x = next[n] THEN prev[n] ELSE prev[x]]
  /\ tail' = [tail EXCEPT ![l] = IF next[n] = Null THEN prev[n] ELSE @]
  /\ head' = [head EXCEPT ![l] = IF prev[n] = Null THEN next[n] ELSE @]
  /\ seq' = [seq EXCEPT ![l] = linked_list_remove(@, n)]

\* A node is removed from the list it is in ...
Remove(l, n) ==
  /\ n \in Range(seq[l])
  /\ Unlink(l, n)

\* ... or, once removed, is removed again.
RemoveAgain(l, n) ==
  /\ ~ Linked(n)
  /\ next[n] = Null
  /\ prev[n] = Null
  /\ Unlink(l, n)

Next ==
  \E l \in Lists, n \in Nodes :
    \/ Insert(l, n)
    \/ \E before \in Nodes : InsertBefore(l, n, before)
    \/ Remove(l, n)
    \/ RemoveAgain(l, n)

Spec == Init /\ [][Next]_vars

-----------------------------------------------------------------------------
(* Properties.                                                             *)

\* What a pointer at position i of sequence s holds, past either end too.
At(s, i) == IF i \in DOMAIN s THEN s[i] ELSE Null

\* Walking a list from its head along next, and from its tail along prev,
\* meets exactly the nodes of its sequence in their order, whatever insertions
\* and removals in both lists came before, the removal of a node that is in no
\* list included: it empties the list, as Queues says.
Represents ==
  \A l \in Lists :
    /\ head[l] = At(seq[l], 1)
    /\ tail[l] = At(seq[l], Len(seq[l]))
    /\ \A i \in DOMAIN seq[l] :
         /\ next[seq[l][i]] = At(seq[l], i + 1)
         /\ prev[seq[l][i]] = At(seq[l], i - 1)

=============================================================================
