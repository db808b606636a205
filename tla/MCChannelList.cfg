SPECIFICATION Spec
CONSTANTS
  n1 = n1
  n2 = n2
  n3 = n3
  Nodes <- Cells
  Nil = Nil
  MaxId = 4
SYMMETRY AnyCell
INVARIANTS
  ListIsWhole
  IdsStayDistinct
  LookupFinds
  NoFreedNode
CHECK_DEADLOCK FALSE
