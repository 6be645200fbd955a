SPECIFICATION MCSpec
CONSTANTS
  Threads = {t1, t2}
  Calls = {1, 2}
  Addrs = {a1, a2}
  Chunks = 1
  Systems <- MCSystems
  Dirs <- MCDirs
  Wedges = {"morphos"}
  Ports = {"morphos"}
SYMMETRY Symm
VIEW View
INVARIANT
  CapturesComplete
CHECK_DEADLOCK FALSE
