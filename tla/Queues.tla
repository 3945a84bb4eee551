------------------------------- MODULE Queues -------------------------------
(***************************************************************************)
(* The doubly linked lists of ds/linked_list.c seen as finite sequences:   *)
(* the run queues, the task table, the timeout queue, the interrupt task   *)
(* queue and the free lists of the kernel are all of this kind.  A node is *)
(* identified by the object it is embedded in, so a sequence of a node     *)
(* standing in at most one place is what the next and prev pointers form.  *)
(***************************************************************************)
EXTENDS Naturals, Sequences, Functions

\* The elements of list that belong to S, in their order: what a walk along
\* the list that drops every node outside S leaves behind.
Keep(list, S) ==
  LET F[i \in 0..Len(list)] ==
        IF i = 0 THEN << >>
        ELSE IF list[i] \in S THEN Append(F[i-1], list[i]) ELSE F[i-1]
  IN  F[Len(list)]

linked_list_insert(list, node) == Append(list, node)

\* What a walk finds of a list when a node of it has been given next = 0.
cut_behind(list, node) ==
  IF node \in Range(list)
  THEN SubSeq(list, 1, CHOOSE k \in 1..Len(list) : list[k] = node) ELSE list

\* linked_list_insert of a node that may be linked already, in this list or in
\* another: its next becomes 0, which cuts the list it stands in; the node at
\* the tail of this list comes to lead to itself, which is written as its
\* standing there twice and is not changed by inserting it again.
insert_again(list, node) ==
  LET at == {k \in 1..Len(list) : list[k] = node}
  IN  IF at = {} THEN Append(list, node)
      ELSE IF Len(list) \notin at THEN cut_behind(list, node)
      ELSE IF \E k \in at : k # Len(list) THEN list
      ELSE Append(list, node)

\* before is in the list.
linked_list_insert_before(list, node, before) ==
  LET i == CHOOSE k \in 1..Len(list) : list[k] = before
  IN  SubSeq(list, 1, i - 1) \o <<node>> \o SubSeq(list, i, Len(list))

\* Removing a node that is linked nowhere (next = prev = 0) stores 0 in both
\* the head and the tail of the list it is wrongly removed from: the whole
\* list is forgotten.
linked_list_remove(list, node) ==
  IF node \in Range(list) THEN Keep(list, Range(list) \ {node}) ELSE << >>

=============================================================================
