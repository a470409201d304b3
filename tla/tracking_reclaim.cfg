CONSTANTS
  a1 = a1
  Addrs = {a1}
  Pool <- OnePool
  Others = TRUE
  Runs = {"loop"}
  Rpcs = 2
  Chunks = 2
  MaxPositions = 1
  None = None
SPECIFICATION Spec
PROPERTY ReclaimTakesOnlyEmpty
