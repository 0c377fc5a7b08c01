CONSTANTS
  BYTEBITS = 2
  NREGS = 4
  A0 = 1
  A1 = 2
  A7 = 3
  DATA = {12, 13, 14, 15}
  NCHAN = 1
  CLOCK = {0}
  STOPKEY = TRUE
  Values <- MCValues
  BOOTS <- MCBoots
SPECIFICATION Spec
INVARIANT TypeOK
PROPERTY ImplementsOracle
CHECK_DEADLOCK FALSE
