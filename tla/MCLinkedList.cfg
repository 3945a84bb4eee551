CONSTANTS
  n1 = n1
  n2 = n2
  n3 = n3
  n4 = n4
  l1 = l1
  l2 = l2
  Null = Null
  Nodes <- MCNodes
  Lists <- MCLists
SYMMETRY ListSymmetry
SPECIFICATION Spec
INVARIANTS
  Represents
