CONSTANTS
  Artifact = {a1}
  Key = {k1}
  Opener = {}
  Unopened = 0
  Opened = 1
  Grace = 2
  Retry = 0
  Limit = 1
  MaxTime = 3
  SendUntil = 0
  NoClock = NoClock
  NoArt = NoArt
SPECIFICATION HealthySpec
PROPERTY TombstoneRetried
CHECK_DEADLOCK FALSE
