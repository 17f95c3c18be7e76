SPECIFICATION Spec
CONSTANTS
  a = a
  b = b
  NoUnit = NoUnit
  Units <- TwoUnits
  Monitored <- OneUnit
  UnitStates = {"running", "dead", "failed"}
  OtherClients = TRUE
  MaxEvents = 3
  Endless = FALSE
  MayHang = TRUE
  ScrapeCap = 1
  MayFail = TRUE
INVARIANTS
  TypeOK
  GhostHasRemoval
  MissingUnitIsComing
  StaleStatusIsRefreshed
PROPERTIES
  ActsAsTask
