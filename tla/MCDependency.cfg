SPECIFICATION FairSpec
CONSTANTS
  Deps = 2
  Policy <- MCPolicy
  Threshold = 2
  Scope = {"GLOBAL", "STRATEGY"}
  Key = {"basis"}
  NoKey = NoKey
  NoScope = NoScope
  MaxAge = 4
INVARIANTS
  TypeOK
  AlarmsAreOpen
PROPERTIES
  NoBlipPages
  LastingOutageHalts
