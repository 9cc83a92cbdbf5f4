SPECIFICATION Spec
CONSTANTS
  Builds <- SocBuilds
  BITS = 2
  TMAX = 3
INVARIANT BytesIntact
INVARIANT BytesOnce
INVARIANT ForwardedOnce
PROPERTY ContextRestored
PROPERTY TickTimely
PROPERTY TickDelivered
PROPERTY ConsoleReturns
