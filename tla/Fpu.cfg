CONSTANTS
  EB = 4
  MB = 3
  IB = 7
  FRAME = 24
  First <- AllFirst
  Follow <- SomeFollow
SPECIFICATION Spec
INVARIANTS
  IssRoundsCorrectly
  CombinationalMatchesIss
  IterativeMatchesIss
PROPERTY
  StallReleased
