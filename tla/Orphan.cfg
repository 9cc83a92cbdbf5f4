SPECIFICATION Spec
CONSTANTS
  Builds <- OrphanBuilds
  PageTables <- WalkTables
  FRAMES = 8
INVARIANT TlbFaithful
