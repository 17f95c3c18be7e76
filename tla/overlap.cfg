SPECIFICATION Spec
CONSTANTS
  h1 = h1
  h2 = h2
  h3 = h3
  Handlers <- ThreeHandlers
  Batches <- Changing
  Tracked = {"scrape_count", "io_read_bytes", "mem_available"}
  I64Max = 3
  U64Max = 7
SYMMETRY Symmetry
INVARIANTS
  TypeOK
  AloneReadsOwn
  NothingStale
  
  CountersAreSums
  ScrapeCountGrows
