------------------------- MODULE MCDynamicAllocator -------------------------
(* Instances of DynamicAllocator for TLC. *)
EXTENDS DynamicAllocator

\* Two pools, of four and of two chunks a page.
MCChunks == <<1, 2>>

\* Requests on both sides of the chunk sizes and of the blocks of pages, and
\* of more than there is.
MCSizes == {1, 2, 3, 5, 9}

\* The frame array in the first page, or behind a region that is there.
MCReservations == {<< >>, <<[addr |-> 0, size |-> 4]>>}
=============================================================================
