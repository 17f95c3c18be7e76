SPECIFICATION Spec
CONSTANTS
  h1 = h1
  h2 = h2
  h3 = h3
  Handlers <- OneHandler
  Batches <- Changing
  Tracked = {"sub_state"}
  I64Max = 3
  U64Max = 7
SYMMETRY Symmetry
INVARIANTS
  SubStateExported
