SPECIFICATION FairSpec
CONSTANTS
  Fd = {3, 4}
  Pid = {p1, p2}
  MaxOutput = 2
  Nil = Nil
INVARIANTS
  ReaderOwned
  CloseKillsOnlyChild
  AllOutputRead
PROPERTY LoopEnds
