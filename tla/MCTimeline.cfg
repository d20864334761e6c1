CONSTANTS
  Day = 3
  Week = 1
  Grace = 1
  Horizon = 2
  DefaultWall = 2
  MaxDefers = 2
  NoDate = NoDate
  Unbounded = Unbounded
  NoTime = NoTime
  NoContext = NoContext
  NoRow = NoRow
  NoOne = NoOne
  Child = {kid}
  Adult = {mum}
  Message = {m1}
  Sweeper = {s1}
  Worker = {w1}
  Context <- Trip
  Retention = 3
  Batch = 2
  ClaimLimit = 2
  MaxTime = 5
  SendUntil = 5
SPECIFICATION Spec
INVARIANT NightOnHerTimeline
CHECK_DEADLOCK FALSE
