SPECIFICATION NPFairSpec
CONSTANTS
  Runner = {r1}
  Caller = {c1, c2}
  Fd = {f1}
  Java = Java
  None = None
  WaitExpires = TRUE
PROPERTIES
  
  StopsReturn
