CONSTANTS
  IMAGE = 6
  Contents = {0, 1}
SPECIFICATION Spec
INVARIANTS TypeOK Correct
PROPERTY Terminates
CHECK_DEADLOCK FALSE
