CONSTANTS
  NPages = 2
  PageSize = 2
  Contents = {0}
  Entries = {1}
  Targets = {1, 2}
  MaxBlock = 1
  NoDynarec = {}
  Loops = {FALSE}
  Heap = {}
  HotMark = 1
  Perms = {"0", "RW", "RX", "RWX"}
  Guest = {"shared", "over", "write_ro", "move"}
SPECIFICATION Spec
INVARIANT HostWithinAsked
PROPERTY WriteEnds
