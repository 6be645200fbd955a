SPECIFICATION TtySpec
CONSTANTS
  Ring = 1
  Handles = 1
  Slot = {1}
  Rounds = 1
  Asks <- MCAsks
  Ports = {"amigaos", "morphos", "aros"}
VIEW View
INVARIANTS
  RefsExact
  NoUseAfterFree
  PacketsConserved
  ParkedAndServed
  NoLostWake
  ChildNotStranded
CHECK_DEADLOCK FALSE
