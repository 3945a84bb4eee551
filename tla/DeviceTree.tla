----------------------------- MODULE DeviceTree -----------------------------
(***************************************************************************)
(* The reader of the flattened device tree (fdt/fdt_parser.c).             *)
(*                                                                         *)
(* The structure block is the sequence dt of its tokens, which nothing     *)
(* changes; an address of the code is an index into dt, and 0 is 0.  A     *)
(* loop of the code that walks from token to token until something stops   *)
(* it is the first index at which it stops.  A node's name is a pair of    *)
(* its base name and unit address ("" for none); the value of a property   *)
(* is a sequence of strings or of 32 bit cells.                            *)
(***************************************************************************)
EXTENDS Integers, Sequences, FiniteSetsExt

CONSTANT CellBase  \* 2^32, what a cell can hold

ASSUME CellAssumption == CellBase \in Nat \ {0}

VARIABLE dt

Begin(name, low0) == [op |-> "begin", name |-> name, low0 |-> low0]
Prop(name, value) == [op |-> "prop", name |-> name, value |-> value]
Token(op) == [op |-> op]

FirstOf(S) == IF S = {} THEN 0 ELSE CHOOSE i \in S : \A j \in S : i <= j

\* The tokens _fdt_next_token_addr comes to from i on: it skips NOPs, and
\* does not move from END.
After(i) ==
  {j \in (i + 1)..Len(dt) :
     /\ i # 0
     /\ dt[j].op # "nop"
     /\ \A k \in i..(j - 1) : dt[k].op # "end"}

Is(op) == {j \in DOMAIN dt : dt[j].op = op}

-----------------------------------------------------------------------------
(* Navigation.                                                             *)

\* The root is looked for behind NOPs only.
fdt_root_node ==
  LET first == FirstOf({j \in DOMAIN dt : dt[j].op # "nop"})
  IN  IF first \in Is("begin") THEN first ELSE 0

\* What the tokens behind i, up to j, add to a depth.
Deeper(i, j) ==
  Cardinality(Is("begin") \cap ((i + 1)..j)) - Cardinality(Is("end_node") \cap ((i + 1)..j))

\* Faulty variant: the end of the node itself is not counted.
fdt_sibling_node_shallow(i) ==
  LET depth(j) == Deeper(i, j)
      stop == FirstOf({j \in After(i) :
                \/ j \in Is("begin") /\ depth(j) = 1
                \/ j \in Is("end_node") /\ depth(j) = -1
                \/ j \in Is("end")})
  IN  IF stop \in Is("begin") THEN stop ELSE 0

fdt_sibling_node(i) ==
  LET depth(j) == 1 + Deeper(i, j)
      stop == FirstOf({j \in After(i) :
                \/ j \in Is("begin") /\ depth(j) = 1
                \/ j \in Is("end_node") /\ depth(j) = -1
                \/ j \in Is("end")})
  IN  IF stop \in Is("begin") THEN stop ELSE 0

fdt_child_node(i) ==
  LET stop == FirstOf(After(i) \cap (Is("begin") \cup Is("end_node") \cup Is("end")))
  IN  IF stop \in Is("begin") THEN stop ELSE 0

\* parent_stack[d] is the node reached last at depth d.  The stack of the
\* code holds 32 entries: trees are assumed not to be deeper.
fdt_parent_node(i) ==
  LET root == fdt_root_node
      depth(j) == 1 + Deeper(root, j)
      above == {j \in {root} \cup After(root) :
                  j < i /\ j \in Is("begin") /\ depth(j) = depth(i) - 1}
  IN  IF i \in {0, root} \/ i \notin After(root) \cap Is("begin") \/ above = {} THEN 0
      ELSE Max(above)

\* The properties follow their node; the first token of another kind ends them.
fdt_property_by_name(i, name) ==
  FirstOf({j \in After(i) \cap Is("prop") :
             /\ dt[j].name = name
             /\ \A k \in After(i) : k < j => k \in Is("prop")})

-----------------------------------------------------------------------------
(* Lookup.                                                                 *)

\* Faulty variant: a component has to be the whole name.
NamedFully(i, component) == dt[i].name = component

\* A component of a path names a node by its full name, or without the unit
\* address.
Named(i, component) ==
  /\ dt[i].name[1] = component[1]
  /\ component[2] \in {"", dt[i].name[2]}

Root == <<"", "">>

\* At each level the first node that is named is taken, for good.  A path is
\* the sequence of its components.
fdt_node_addr_by_path(path) ==
  LET full == <<Root>> \o path
      F[i \in 0..Len(dt), n \in DOMAIN full] ==
        IF i = 0 THEN 0
        ELSE IF ~ Named(i, full[n]) THEN F[fdt_sibling_node(i), n]
        ELSE IF n = Len(full) THEN i
        ELSE F[fdt_child_node(i), n + 1]
  IN  F[fdt_root_node, 1]

\* The result is node_addr cut to a byte, and 0 for a node at an address whose
\* low byte is 0.
fdt_node_is_compatible(i, compatible) ==
  LET prop == fdt_property_by_name(i, "compatible")
  IN  /\ prop # 0
      /\ \E k \in DOMAIN dt[prop].value : dt[prop].value[k] = compatible
      /\ ~ dt[i].low0

\* The root is not looked at.
fdt_node_addr_by_compatible(compatible) ==
  FirstOf({j \in After(fdt_root_node) \cap Is("begin") :
             fdt_node_is_compatible(j, compatible)})

-----------------------------------------------------------------------------
(* Cells.                                                                  *)

Cell(prop, k) == dt[prop].value[k]

\* be64_to_cpu of the two cells from k on.
Wide(prop, k) == Cell(prop, k) * CellBase + Cell(prop, k + 1)

AddressCells(i) == fdt_property_by_name(fdt_parent_node(i), "#address-cells")
SizeCells(i)    == fdt_property_by_name(fdt_parent_node(i), "#size-cells")

\* fdt_get_node_cells returns: the loop never leaves the node's parent.
fdt_get_node_cells(i) == i = 0 \/ (AddressCells(i) # 0 /\ SizeCells(i) # 0)

\* The first entry of reg.
fdt_reg_property(i) ==
  LET reg == fdt_property_by_name(i, "reg")
      at  == Cell(AddressCells(i), 1)
  IN  IF reg = 0 THEN [addr |-> 0, size |-> 0]
      ELSE [addr |-> IF at = 1 THEN Cell(reg, 1) ELSE Wide(reg, 1),
            size |-> IF Cell(SizeCells(i), 1) = 1 THEN Cell(reg, at + 1)
                     ELSE Wide(reg, at + 1)]

-----------------------------------------------------------------------------
(* Properties: the tree the tokens stand for, by matching begin and end.   *)

Nodes == Is("begin")

Close(i) == Min({j \in Is("end_node") : j > i /\ Deeper(i, j) = -1})

Ancestors(i) == {j \in Nodes : j < i /\ i < Close(j)}

\* The parent, and 0 for the root.
Parent(i) == IF Ancestors(i) = {} THEN 0 ELSE Max(Ancestors(i))

Children(i) == {j \in Nodes : Parent(j) = i}

\* The node a property stands in.
Owner(p) == Max({j \in Nodes : j < p /\ p < Close(j)})

\* The property of a node by its name, 0 if it has none.
PropOf(i, name) == FirstOf({p \in Is("prop") : dt[p].name = name /\ Owner(p) = i})

\* Walking the tokens with a counter finds the relations of the tree: the
\* first child, the next sibling, the parent, and each property of the node
\* itself and of no other, wherever properties, subtrees and NOPs stand.
NavigationCorrect ==
  \A i \in Nodes :
    /\ fdt_child_node(i) = FirstOf(Children(i))
    /\ fdt_sibling_node(i) =
         (IF i = fdt_root_node THEN 0 ELSE FirstOf({j \in Children(Parent(i)) : j > i}))
    /\ fdt_parent_node(i) = Parent(i)
    /\ \A p \in Is("prop") :
         fdt_property_by_name(i, dt[p].name) = PropOf(i, dt[p].name)

\* A lookup returns the node that each component names first among its
\* siblings, and a lookup by device the first node that lists it, but for the
\* root and those the truncation hides.
LookupsCorrect ==
  /\ \A i \in Nodes :
       LET line == Ancestors(i) \cup {i}
           at(n) == CHOOSE j \in line : Cardinality(Ancestors(j)) = n
           depth == Cardinality(Ancestors(i))
           path(units) == [n \in 1..depth |->
             IF n \in units THEN dt[at(n)].name ELSE <<dt[at(n)].name[1], "">>]
           firsts(units) == \A n \in 1..depth : \A j \in Children(Parent(at(n))) :
             j < at(n) => ~ Named(j, path(units)[n])
       IN  \A units \in SUBSET (1..depth) :
             (fdt_node_addr_by_path(path(units)) = i) <=> firsts(units)
  /\ \A p \in {q \in Is("prop") : dt[q].name = "compatible"} :
       \A device \in Range(dt[p].value) :
         fdt_node_addr_by_compatible(device) =
           FirstOf({Owner(q) : q \in {r \in Is("prop") :
                      /\ dt[r].name = "compatible"
                      /\ device \in Range(dt[r].value)
                      /\ Owner(r) # fdt_root_node
                      /\ ~ dt[Owner(r)].low0}})
=============================================================================
