SPECIFICATION FairSpec
CONSTANTS
  u1 = u1
  u2 = u2
  r1 = r1
  r2 = r2
  t1 = t1
  t2 = t2
  t3 = t3
  System = System
  NoTask = NoTask
  NoRequest = NoRequest
  Uids <- OneUser
  Requests <- OneRequest
  Tasks <- ThreeTasks
  MaxLogins = 2
  SlowBus = FALSE
  Refusing = {}
  HangScopes = {}
  SilentBuses = {}
  RequestCap = 1
  ManagerCap = 2
  MonitorUsers = {TRUE}
PROPERTIES
  SignalledUserMonitored
