CONSTANTS
  NPages = 2
  PageSize = 4
  Contents = {0, 1}
  Entries = {3, 4}
  Targets = {3, 4}
  MaxBlock = 1
  NoDynarec = {4}
  Loops = {TRUE, FALSE}
  Heap = {1}
  HotMark = 1
  Perms = {"RX", "RWX"}
  Guest = {"shared"}
SPECIFICATION Spec
INVARIANTS SharedTested Coherent
