SPECIFICATION FairSpec
CONSTANTS
  Areas <- OneArea
  Zones <- OneZone
  Payloads <- Said
  MaxReports = 2
  MaxLosses = 1
  MaxMessages = 1
INVARIANTS
  TypeOK
  CommandSocketOpen
PROPERTIES
  Mirrors
  Delivered
  OnlineAgain
  StopsIfAccepted
CHECK_DEADLOCK FALSE
