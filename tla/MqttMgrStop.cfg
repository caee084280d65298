SPECIFICATION FairSpec
CONSTANTS
  Areas <- OneArea
  Zones = {}
  Payloads = {}
  MaxReports = 1
  MaxLosses = 1
  MaxMessages = 1
PROPERTIES
  StopsProperly
CHECK_DEADLOCK FALSE
