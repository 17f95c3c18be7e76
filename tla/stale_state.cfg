SPECIFICATION Spec
CONSTANTS
  a = a
  b = b
  NoUnit = NoUnit
  Units <- OneUnit
  Monitored <- OneUnit
  UnitStates = {"running", "dead", "failed"}
  OtherClients = FALSE
  MaxEvents = 2
  Endless = FALSE
  MayHang = FALSE
  ScrapeCap = 1
  MayFail = FALSE
INVARIANTS
  StatusTrueAtRest
