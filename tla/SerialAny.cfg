SPECIFICATION FairSpec
CONSTANTS
  CR = CR
  NUL = NUL
  Chars = {"a", "b", "c", "d", "e", "f"}
  Lines <- AnyLines
  BuffLen = 3
  InputLen = 4
  QueueLen = 2
  Noise = TRUE
  MaxWire = 6
  MaxTold = 9
INVARIANTS
  TypeOK
  BytesKept
  NoMixedLines
PROPERTIES
  Drains
CHECK_DEADLOCK FALSE
