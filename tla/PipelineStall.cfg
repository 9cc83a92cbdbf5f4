SPECIFICATION Spec
CONSTANTS
  Builds <- StallBuilds
  NVAL = 2
  NPC = 2
  NREG = 2
  INSTRETMOD = 2
PROPERTY RefinesIsa
PROPERTY Progress
