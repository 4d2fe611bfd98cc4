CONSTANTS
  Nums = {1, 2, 3}
  MaxFirmware = 1
SPECIFICATION Spec
INVARIANT TypeOK
INVARIANT OthersStayInOrder
INVARIANT CompletedIsReachable
INVARIANT FirstBootIsOurs
PROPERTY TakesOnlyCopies
