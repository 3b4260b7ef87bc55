SPECIFICATION NPSpec
CONSTANTS
  Runner = {r1}
  Caller = {c1}
  Fd = {f1, f2}
  Java = Java
  None = None
  WaitExpires = FALSE
SYMMETRY Symmetry
INVARIANTS
  NoForeignClose
