CONSTANTS
  BYTEBITS = 4
  NREGS = 4
  A0 = 1
  A1 = 2
  A7 = 3
  DATA = {100}
  NCHAN = 1
  CLOCK = {0}
  STOPKEY = TRUE
  Values <- MCValues
  BOOTS <- MCBoots
SPECIFICATION Spec
PROPERTY ImplementsOracle
CHECK_DEADLOCK FALSE
