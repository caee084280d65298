SPECIFICATION Spec
CONSTANTS
  MaxAreas = 4
  MaxZones = 4
  Areas = {1, 2}
  ZoneArea <- TwoZones
  Misc = {"x"}
  Inputs <- TwoAreaInputs
  MaxReports = 2
INVARIANTS
  TypeOK
  NothingPending
  AreaReportsSound
  ZonesOpenShown
  LastAreaReportCurrent
  LastZoneReportCurrent
PROPERTIES
  AlarmHasCause
  AlarmEndsByStatusResponse
  StayArmKept
CHECK_DEADLOCK FALSE
