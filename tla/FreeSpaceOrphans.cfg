CONSTANTS
  Runs = 1
  NSlots = 3
  Others = {"windows"}
  MaxOutside = 0
SPECIFICATION Spec
INVARIANT NoOrphans
