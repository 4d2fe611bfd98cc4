CONSTANTS
  NFrames = 3
  Threads = {w1, w2}
SPECIFICATION FairSpec
INVARIANT TypeOK
INVARIANT WrittenMeansDurable
INVARIANT RefusedMeansUntouched
INVARIANT OneWorkerPerFrame
PROPERTY ImplementsCopy
PROPERTY AlwaysExits
