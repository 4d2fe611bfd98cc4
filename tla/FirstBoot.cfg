CONSTANT Sessions = 2
SPECIFICATION Spec
INVARIANT DriveClearsEarlierInputs
INVARIANT FirstBootReachesOwner
INVARIANT FactoryIsHandable
