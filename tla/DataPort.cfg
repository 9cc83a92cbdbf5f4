SPECIFICATION Spec
CONSTANTS
  Builds <- PortBuilds
  WORDS = 12
  WAYS = 2
  NUM_SETS = 2
  LINE_WORDS = 2
  STORES = 2
INVARIANT LoadsRight
INVARIANT OneWay
INVARIANT Coherent
INVARIANT FenceFlushes
PROPERTY Progress
