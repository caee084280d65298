SPECIFICATION Spec
CONSTANTS
  MaxAreas = 2
  MaxZones = 2
  Areas = {1}
  ZoneArea <- OneZone
  Misc = {"x"}
  Inputs <- OneAreaInputs
  MaxReports = 2
INVARIANTS
  AlarmReportedTriggered
CHECK_DEADLOCK FALSE
