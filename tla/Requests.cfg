SPECIFICATION FairSpec
CONSTANTS
  MaxAreas = 3
  MaxZones = 3
  Areas <- OneArea
  Zones <- OneZone
  MaxUtilityKey = 1
  UserCode = TRUE
  Commands <- SomeCommands
  MaxActs = 2
  MaxWaiting = 2
  MaxFaults = 1
INVARIANTS
  TypeOK
PROPERTIES
  CommandsKept
  CommandsArrive
  AreasConverge
  ZonesLearnt
