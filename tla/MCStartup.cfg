CONSTANTS
  BYTEBITS = 2
  NREGS = 4
  A0 = 1
  A1 = 2
  A7 = 3
  DATA = {8, 9, 10, 11, 12, 13, 14, 15}
  NCHAN = 4
  CLOCK <- MCCLOCK
  STOPKEY = FALSE
  BOOTS <- MCBoots
SPECIFICATION Spec
INVARIANT Echoed
PROPERTY BssZeroed
CHECK_DEADLOCK FALSE
