SPECIFICATION Spec
CONSTANTS
  Kinds = {"service"}
  FlagSets <- Settings
  Kernels <- OnlyNew
  U64Max = 7
  MaxLives = 1
INVARIANTS
  CpuTimeReported
