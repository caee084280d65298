SPECIFICATION FairSpec
CONSTANTS
  CR = CR
  NUL = NUL
  Chars = {"a", "b", "c", "d", "e", "f"}
  Lines <- ShortLines
  BuffLen = 3
  InputLen = 4
  QueueLen = 2
  Noise = FALSE
  MaxWire = 6
  MaxTold = 12
PROPERTIES
  LinesKept
  EverythingHeard
CHECK_DEADLOCK FALSE
