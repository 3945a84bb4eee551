---------------------------- MODULE MCLinkedList ----------------------------
(* Instances of LinkedList for TLC. *)
EXTENDS LinkedList, TLC

CONSTANTS n1, n2, n3, n4, l1, l2

MCNodes == {n1, n2, n3, n4}
MCLists == {l1, l2}

\* Nodes and lists are only compared for equality.
ListSymmetry == Permutations(MCNodes) \cup Permutations(MCLists)
=============================================================================
