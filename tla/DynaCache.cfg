CONSTANTS
  NPages = 3
  PageSize = 4
  Contents = {0, 1}
  Entries = {3, 4}
  Targets = {4}
  MaxBlock = 2
  NoDynarec = {}
  Loops = {FALSE}
  Heap = {}
  HotMark = 1
  Perms = {"0", "RX", "RWX"}
  Guest = {"cross_free"}
SPECIFICATION Spec
INVARIANTS CacheInv Guarded Coherent RunningFresh
PROPERTY NoSpuriousSegv
