SPECIFICATION Spec
CONSTANTS
  c = c
  d = d
  z = z
  b = b
  x = x
  Paths = {c, d, z, b, x}
  Archives = {z, b}
  Bundle = b
  Documents = {d}
  ToolFiles = {c}
  Foreign = {x}
  MinMembers = 1
  MaxWrites = 2
  MaxSteps = 1
  MaxRuns = 2
  MaxFaults = 1
INVARIANTS
  
  
  NothingTwice
CHECK_DEADLOCK FALSE
