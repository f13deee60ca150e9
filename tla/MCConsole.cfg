SPECIFICATION Spec
CONSTANTS
  VGA_WIDTH = 3
  VGA_HEIGHT = 3
  Seconds = 3
  Minutes = 2
  MaxTicks = 2
  BUFFER_SIZE = 2
  MaxLine = 5
  MaxBlocks = 2
  MaxKeys = 5
  Times <- MCTimes
  Formats <- MCFormats
  Commands <- MCCommands
  Letters <- MCLetters
  Prompt <- MCPrompt
INVARIANTS
  TypeOK
  Echo
  DateTrue
PROPERTY
  Answers
CHECK_DEADLOCK FALSE
