SPECIFICATION Spec
CONSTANTS
  Obj = {a, b, c}
  Slot = {i, j}
  Static = {s}
  Class = Class
  MaxLocals = 1
  Null = Null
SYMMETRY Symmetry
INVARIANTS
  CountsOwners
  CollectExact
  ExitEmpties
