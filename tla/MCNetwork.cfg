CONSTANTS
  Payloads <- MCPayloads
  MAXFRAMES = 3
  SHARED = TRUE
  Ports = {p1, p2}
  MAX_CONNS = 2
  HLEN = 4
  FINLEN = 44
  CONNECTIONS = 2
  RETRIES = 1
  NAKS = 1
  Sessions <- MCSessions
  BUFSIZE = 4
  MSS = 3
  GAME_RETRIES = 1
  Values <- MCValues
  Bytes <- MCBytes
  MAXLEN = 6
SPECIFICATION MCSpec
INVARIANTS FramesInOrder Opens TablesAgree AnswersFollowPackets DecodesWhenWhole SumsToZero
PROPERTIES OthersKept WebAnswered Joins
CHECK_DEADLOCK FALSE
