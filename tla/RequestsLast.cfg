SPECIFICATION FairSpec
CONSTANTS
  MaxAreas = 3
  MaxZones = 3
  Areas <- LastArea
  Zones = {}
  MaxUtilityKey = 1
  UserCode = TRUE
  Commands = {}
  MaxActs = 1
  MaxWaiting = 2
  MaxFaults = 0
PROPERTIES
  AreasReported
