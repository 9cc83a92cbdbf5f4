CONSTANTS
  XLEN = 3
  WLEN = 2
SPECIFICATION Spec
INVARIANT DoneCorrect
PROPERTY StallReleased
