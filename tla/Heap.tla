-------------------------------- MODULE Heap --------------------------------
(***************************************************************************)
(* What allocate and free promise: the pieces of memory in the hands of    *)
(* their callers never share a byte.                                       *)
(***************************************************************************)
EXTENDS Naturals

VARIABLE pieces     \* of each address given out, how many bytes were asked for

Apart(a, m, b, n) == a + m <= b \/ b + n <= a

Init == pieces = << >>

Give(addr) ==
  /\ addr \notin DOMAIN pieces
  /\ DOMAIN pieces' = DOMAIN pieces \cup {addr}
  /\ \A other \in DOMAIN pieces :
       /\ pieces'[other] = pieces[other]
       /\ Apart(addr, pieces'[addr], other, pieces[other])

TakeBack(addr) ==
  /\ addr \in DOMAIN pieces
  /\ pieces' = [a \in DOMAIN pieces \ {addr} |-> pieces[a]]

Next ==
  \/ \E addr \in DOMAIN pieces' : Give(addr)
  \/ \E addr \in DOMAIN pieces : TakeBack(addr)

Spec == Init /\ [][Next]_pieces

=============================================================================
