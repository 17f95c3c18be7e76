SPECIFICATION FairSpec
CONSTANTS
  c1 = c1
  c2 = c2
  u1 = u1
  u2 = u2
  Callers <- TwoCallers
  Users <- TwoUsers
  NoCaller = NoCaller
  NoUser = NoUser
  Root = Root
  Broken = Broken
  StartedAs <- RootOrUser
  MaySwitch = {TRUE, FALSE}
  RootAllowed <- OneAllowed
INVARIANTS
  TypeOK
  EuidRestored
  SecondAsOwner
PROPERTIES
  LooksOnce
  CallsReturn
