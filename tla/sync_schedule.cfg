SPECIFICATION FairSpec
CONSTANTS
  None = none
  notion = notion
  local = local
  p1 = p1
  p2 = p2
  Sources <- MCSources
  ProjectOf <- MCProjectOf
  Interval <- MCInterval
  MinGap = 2
  MaxSkip = 1
  Cap = 1
  Pushed <- MCPushed
  MaxLate = 3
INVARIANTS
  TypeOK
  DeliveryRemembered
PROPERTIES
  NoHotLoop
  ScheduleGoesOn
