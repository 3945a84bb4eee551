--------------------------- MODULE MCAddressSpace ---------------------------
(* Instances of AddressSpace for TLC. *)
EXTENDS AddressSpace, TLC

Request(vaddr, size, prot, populate) ==
  [vaddr |-> vaddr, size |-> size, prot |-> prot, populate |-> populate]

\* Across the trampoline and, past that, into the program; too large; nothing.
MCRequests ==
  {Request(1, 1, {"w"}, TRUE),
   Request(1, 1, {"w"}, FALSE),
   Request(0, KernelBase + 1, {"r"}, FALSE),
   Request(0, 0, {"r"}, FALSE)}

\* The trampoline, a page of the program, and one that only mmap maps.
MCTouched == {1, 2, 3}

\* Nothing tells one task from another.
TaskSymmetry == Permutations(Tasks)
=============================================================================
