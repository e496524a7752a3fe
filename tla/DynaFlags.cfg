SPECIFICATION FairSpec
CONSTANTS
  Flags <- MCFlags
  MaxInsts = 4
  Families <- MCFamilies
  SafeFlags = 2
  Targets <- MCForward
INVARIANTS TypeOK ReadsFresh FlagsKept NeedReached
PROPERTIES NeedEnds
