SPECIFICATION Spec
CONSTANTS
  MaxAreas = 2
  MaxZones = 4
  CommandLines <- SomeLines
  Configs <- SomeConfigs
INVARIANTS
  TypeOK
  ZonesFollowArea
  ScriptFaithful
CHECK_DEADLOCK FALSE
