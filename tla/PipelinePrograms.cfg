SPECIFICATION Spec
CONSTANTS
  Builds <- ProgramBuilds
  NVAL = 2
  NPC = 3
  NREG = 2
  INSTRETMOD = 1
INVARIANT LoadUseSafe
INVARIANT OperandsFresh
PROPERTY RefinesIsa
