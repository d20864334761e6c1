CONSTANTS
  Day = 3
  Week = 1
  Grace = 1
  Horizon = 2
  DefaultWall = 2
  MaxDefers = 2
  NoDate = NoDate
  Unbounded = Unbounded
  NoTime = NoTime
  NoContext = NoContext
  NoRow = NoRow
  NoOne = NoOne
  Child = {kid}
  Adult = {mum}
  Message = {m1, m2}
  Sweeper = {s1}
  Worker = {w1, w2}
  Context <- Moves
  Retention = 2
  Batch = 2
  ClaimLimit = 1
  MaxTime = 3
  SendUntil = 3
SPECIFICATION Spec
SYMMETRY WorkerSymmetry
INVARIANTS
  TypeOK
  ScheduleSound
  FiredOnce
  NeverEarly
PROPERTIES
  DeliveredIsHers
  KeepsPromise
CHECK_DEADLOCK FALSE
