SPECIFICATION FairSpec
CONSTANTS
  u1 = u1
  u2 = u2
  r1 = r1
  r2 = r2
  t1 = t1
  t2 = t2
  t3 = t3
  System = System
  NoTask = NoTask
  NoRequest = NoRequest
  Uids <- OneUser
  Requests <- TwoRequests
  Tasks <- TwoTasks
  MaxLogins = 1
  SlowBus = FALSE
  Refusing = {}
  HangScopes = {u1}
  SilentBuses = {u1, System}
  RequestCap = 1
  ManagerCap = 2
  MonitorUsers = {TRUE, FALSE}
INVARIANTS
  TypeOK
  OneOutstandingRequest
  EachRequestInOnePlace
PROPERTIES
  ServesSnapshots
  ActsAsTask
  ScrapeResolved
