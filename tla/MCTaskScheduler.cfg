SPECIFICATION FairSpec
CONSTANTS
  Main = Main
  Worker = {w1, w2, w3}
  Category = {io, bg}
  MaxMessages = 4
  Null = Null
INVARIANTS
  MessagesKept
  StoppedAfterTasks
PROPERTIES
  StopAllReturns
