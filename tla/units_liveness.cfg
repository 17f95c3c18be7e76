SPECIFICATION FairSpec
CONSTANTS
  a = a
  b = b
  NoUnit = NoUnit
  Units <- OneUnit
  Monitored <- OneUnit
  UnitStates = {"running", "dead"}
  OtherClients = FALSE
  MaxEvents = 2
  Endless = TRUE
  MayHang = TRUE
  ScrapeCap = 1
  MayFail = FALSE
PROPERTIES
  TableConverges
  StatusConverges
  ScrapesServed
