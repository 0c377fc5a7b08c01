CONSTANTS
  BYTEBITS = 8
  NREGS = 32
  A0 = 10
  A1 = 11
  A7 = 17
  Insn <- MCInsn
  Numbers = {1, 2, 3, 4}
  Texts = {"a", "b"}
  MAXLINES = 3
  Tapes = {"encoding", "sqlsteel", "basic", "oregon", "unijack", "baseball", "battleship", "camlheap", "sudoku", "unigma", "bahlsen", "wordle"}
  BOARD_SIZE = 3
  Lengths <- MCLengths
  Placements <- MCPlacements
  Shots = {0, 1, 4, 9}
  player_roster <- MCRoster
  Typed <- MCTyped
  TEAM_SIZE = 2
  MAX_INNINGS = 1
  MAXUP = 4
  MAXINNINGS = 1
  TOTAL_DISTANCE = 420
  MOUNTAINS = 290
  BLUE_MOUNTAINS = 350
  LAST_TURN = 2
  Purchases <- MCPurchases
  Spend = {30}
  Journeys <- MCJourneys
  N = 4
  BOX = 2
  Lines <- MCLines
SPECIFICATION MCSpec
INVARIANT RoundTrip
INVARIANT FetchMeetsHandler
INVARIANT Selected
INVARIANT Applied
INVARIANT Faithful
INVARIANT Balanced
INVARIANT Refused
PROPERTY ImplementsTable
INVARIANT Decided
INVARIANT Fair
INVARIANT Accounted
INVARIANT Unspent
INVARIANT Boards
INVARIANT Survives
INVARIANT Solved
INVARIANT Reciprocal
INVARIANT Cracked
INVARIANT Marked
CHECK_DEADLOCK FALSE
