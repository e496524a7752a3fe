CONSTANTS
  Threads = {t1, t2, t3}
  Contents = {0, 1}
  MaxBlocks = 3
  Wait = FALSE
  Polite = TRUE
SPECIFICATION Spec
SYMMETRY Symmetry
INVARIANTS QuietCoherent NoSpuriousSegv
