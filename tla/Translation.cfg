SPECIFICATION Spec
CONSTANTS
  Builds <- WalkBuilds
  PageTables <- WalkTables
  FRAMES = 8
INVARIANT BusExclusive
INVARIANT WalkAwaited
INVARIANT TlbFaithful
INVARIANT FetchRight
INVARIANT AccessRight
PROPERTY Progress
