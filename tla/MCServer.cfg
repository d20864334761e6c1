CONSTANTS
  JoinTTL = 1
  Lifetime = 1
  RateCap = 1
  MaxMoves = 0
  MaxTime = 2
  Flat = {c1, c2}
  Nesting = {c3}
  Size = 2
  NoClient = NoClient
  Scheduler = {cron, hand}
  JOB_NAMES <- TheJobs
  HourUtc = 1
  DayTicks = 2
  LastTick = 3
  Operator = {o1, o2}
  Files <- TheFiles
  Repeatable <- TheRepeatable
  NoProcess = NoProcess
SPECIFICATION ServerSpec
INVARIANTS
  ServerTypeOK
  WhatIsSharedHolds
  TableEndsForBoth
PROPERTIES
  SingleUse
  WhatIsOpenedEnds
CHECK_DEADLOCK FALSE
