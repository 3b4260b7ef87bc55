SPECIFICATION NPSpec
CONSTANTS
  Runner = {r1, r2}
  Caller = {c1}
  Fd = {f1, f2}
  Java = Java
  None = None
  WaitExpires = TRUE
SYMMETRY Symmetry
INVARIANTS
  NPTypeOK
  PublishedPoolLive
  ServerFdIsListener
  OneMainAtATime
PROPERTIES
  ImplementsEngine
  ParamsKept
