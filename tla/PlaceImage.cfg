CONSTANTS
  NFrames = 3
  PipeSize = 2
  UmountTries = 2
  BlkidTries = 2
SPECIFICATION FairSpec
INVARIANT TypeOK
INVARIANT UuidFreshWhenMounted
PROPERTY WrittenOnlyUnmounted
PROPERTY ImplementsCopy
PROPERTY PlacingEnds
