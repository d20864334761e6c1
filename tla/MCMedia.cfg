CONSTANTS
  Artifact = {a1, a2}
  Key = {k1}
  Opener = {o1, o2}
  Unopened = 1
  Opened = 1
  Grace = 3
  Retry = 1
  Limit = 1
  MaxTime = 5
  SendUntil = 1
  NoClock = NoClock
  NoArt = NoArt
SPECIFICATION LiveSpec
INVARIANTS
  TypeOK
  DeliverableHasMedia
PROPERTIES
  ReapedInOrder
  NeverLengthens
  OverdueHandled
CHECK_DEADLOCK FALSE
