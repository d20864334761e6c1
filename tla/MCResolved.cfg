CONSTANTS
  Day = 3
  Week = 1
  Grace = 1
  Horizon = 2
  DefaultWall = 2
  MaxDefers = 2
  NoDate = NoDate
  Unbounded = Unbounded
  NoTime = NoTime
  NoContext = NoContext
  NoRow = NoRow
  NoOne = NoOne
  Child = {kid}
  Adult = {}
  Message = {m1, m2}
  Sweeper = {s1}
  Worker = {}
  Context <- Unplanned
  Retention = 2
  Batch = 1
  ClaimLimit = 1
  MaxTime = 4
  SendUntil = 1
SPECIFICATION LiveSpec
PROPERTIES
  Resolved
CHECK_DEADLOCK FALSE
