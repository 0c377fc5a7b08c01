CONSTANTS
  BYTEBITS = 2
  NREGS = 4
  A0 = 1
  A1 = 2
  A7 = 3
  DATA = {8, 9, 10, 11, 12, 13, 14, 15}
  NCHAN = 4
  CLOCK <- MCCLOCK
  STOPKEY = TRUE
  BOOTS <- MCBoots
SPECIFICATION Spec
PROPERTY NoinitKept
CHECK_DEADLOCK FALSE
