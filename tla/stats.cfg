SPECIFICATION Spec
CONSTANTS
  Kinds = {"service", "slice", "root slice", "timer"}
  FlagSets <- Settings
  Kernels <- OldAndNew
  U64Max = 7
  MaxLives = 2
INVARIANTS
  TypeOK
  WholeOrNothing
  TrueWhenUndisturbed
  FlagsTrueUnlessReloaded
