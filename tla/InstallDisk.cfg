CONSTANTS
  Attempts = 3
  Tries = 3
SPECIFICATION DiskSpec
INVARIANT TableIsRead
INVARIANT OtherPoolSurvives
INVARIANT OfferedMeansLetGo
