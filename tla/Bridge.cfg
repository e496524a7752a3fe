CONSTANTS
  Threads = {t1, t2}
  Fncs = {f1, f2}
  Ops = {"auto", "protect", "malloc"}
  NBRICK = 1
  MaxCalls = 3
  MaxSignals = 1
SPECIFICATION Spec
INVARIANTS TypeOK LocksKept SlotsDistinct MapSound Duplicates
PROPERTY CallsEnd
CHECK_DEADLOCK FALSE
