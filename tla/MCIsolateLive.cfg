SPECIFICATION LiveSpec
CONSTANTS
  Worker = {w1, w2}
  Main = main
  Handle = {h1, h2, h3}
  Msg = {m1}
  None = None
CHECK_DEADLOCK FALSE
PROPERTIES
  JoinReturns
  ExitCompletes
