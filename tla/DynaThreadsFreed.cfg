CONSTANTS
  Threads = {t1, t2}
  Contents = {0, 1}
  MaxBlocks = 3
  Wait = TRUE
  Polite = TRUE
SPECIFICATION Spec
INVARIANT NoDangling
