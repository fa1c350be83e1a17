CONSTANTS
  Objects = {main, a, b}
  Main = main
  Width = 1
  Depth = 2
SPECIFICATION Spec
INVARIANTS TypeOK NoDangling Tricolour
PROPERTY IsHeap Collected
