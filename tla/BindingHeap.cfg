\* Bindings of any age, a heap of five, and more Bindings than it holds.
SPECIFICATION Spec
CONSTANTS
  Node = {n1}
  Ref = {r1, r2, r3, r4, r5, r6}
  Size = 5
  GCTimeRange = 2
  HotValue <- OnePolicy
  MaxLag = 4
  MaxTime = 4
SYMMETRY Symmetry
INVARIANTS
  HeapOrdered
PROPERTIES
  ImplementsRecords
