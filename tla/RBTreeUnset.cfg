CONSTANTS
  Top = 6
  Data = {0, 1}
  NoData = NoData
SPECIFICATION Spec
INVARIANT UnsetExact
