SPECIFICATION FairSpec
CONSTANTS
  Sessions = {s1, s2}
  Lan = {}
  Limits = {0, 2}
  MinChunk = 1
  MaxFilebuf = 2
  MaxSize = 3
  Timeout = 1
  MaxLag = 2
  Word = 256
  SecondsPerDay = 10
INVARIANTS WithinLimit
PROPERTIES TransfersMove IdleTold
