CONSTANTS
  c1 = c1
  c2 = c2
  Comm = {c1, c2}
  Global = Global
  Pages = 2
  Buffers <- Neighbours
  AllocOf <- MCAllocOf
  MaxRegs = 3
  MaxFailures = 1
SPECIFICATION Spec
SYMMETRY Symmetry
CHECK_DEADLOCK FALSE
INVARIANT RegisteredIsFound
