CONSTANTS
  Threads = {t1, t2}
  Requests = {1, 4, 15}
  Threshold = 2
  ArenaSize = 16
  MaxArenas = 2
SPECIFICATION Spec
SYMMETRY Symmetry
INVARIANTS TagsAgree HintsExact LiveOwned CopyFits FindExact
PROPERTY NoNeedlessArena
