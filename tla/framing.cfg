CONSTANTS
  NPacks = 4
  MaxLen = 6
  HeadSize = 2
  BufSize = 5
SPECIFICATION Spec
INVARIANTS PacksAsSent OnlyCutHeadersStop
