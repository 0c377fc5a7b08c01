CONSTANTS
  Ports = {p1, p2}
  MAX_CONNS = 2
  HLEN = 4
  FINLEN = 40
  CONNECTIONS = 2
  RETRIES = 0
  NAKS = 1
SPECIFICATION Spec
PROPERTY FinAnswered
CHECK_DEADLOCK FALSE
