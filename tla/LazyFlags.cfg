CONSTANTS
  Byte = 4
  Word = 6
  Nibble = 2
  Families <- MCFamilies
SPECIFICATION Spec
INVARIANTS DeferredRight DirectRight ResultsAgree
CHECK_DEADLOCK FALSE
