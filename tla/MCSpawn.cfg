SPECIFICATION MCSpec
CONSTANTS
  Threads = {t1, t2}
  Calls = {1, 2}
  Addrs = {a1, a2}
  Chunks = 1
  Systems <- MCSystems
  Dirs <- MCDirs
  Wedges = {"amigaos", "morphos"}
  Ports = {"amigaos", "morphos", "aros", "libc"}
SYMMETRY Symm
VIEW View
INVARIANTS
  WholeOrMarked
  NoHarm
  NothingLeftBehind
  RunsTheFirst
CHECK_DEADLOCK FALSE
