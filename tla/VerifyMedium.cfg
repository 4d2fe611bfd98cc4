CONSTANTS
  HashLength = 2
  MaxUnanswered = 1
  MaxSettling = 1
SPECIFICATION Spec
INVARIANT TypeOK
INVARIANT WrittenOnlyIfVerified
INVARIANT AdviceFitsCause
PROPERTY GoodMediumAccepted
PROPERTY AlwaysAnswers
