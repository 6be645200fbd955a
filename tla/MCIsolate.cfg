SPECIFICATION Spec
CONSTANTS
  Worker = {w1, w2}
  Main = main
  Handle = {h1, h2, h3}
  Msg = {m1}
  None = None
SYMMETRY Symmetry
CHECK_DEADLOCK FALSE
INVARIANTS
  TypeOK
  CountExact
  NoUseAfterFree
  MessageOwnedOnce
  TeardownComplete
  JoinXorDetach
  SingleThreadShortcut
PROPERTIES
  JoinWaits
  FreedAfterDone
