CONSTANTS
  Channels <- MCChannels
  Scripts <- MCScripts
  Lines <- MCLines
SPECIFICATION Spec
INVARIANTS TypeOK ChannelsQuiet
PROPERTIES BufferStable ImplementsCalls Answered
CHECK_DEADLOCK FALSE
