SPECIFICATION Spec
CONSTANTS
  Builds <- TrapLostBuilds
  NVAL = 2
  NPC = 4
  NREG = 2
  INSTRETMOD = 1
PROPERTY RefinesIsa
