CONSTANTS
  Runs = 2
  NSlots = 4
  Others = {windows, late}
  windows = windows
  late = late
  MaxOutside = 1
SPECIFICATION Spec
INVARIANT ForeignUntouched
INVARIANT HandoverSound
INVARIANT ReleasedAfterwards
SYMMETRY OthersSymmetry
