CONSTANTS
  Threads = {t1, t2}
  Contents = {0, 1}
  MaxBlocks = 1
  Wait = TRUE
  Polite = FALSE
SPECIFICATION Spec
INVARIANTS OneFills EntryLive EntryInv
PROPERTY DispatchEnds
