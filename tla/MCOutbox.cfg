CONSTANTS
  Recording = {r1, r2}
  MAX_ATTEMPTS = 8
  MayLeave = FALSE
  NoRecording = NoRecording
SPECIFICATION OutboxSpec
PROPERTIES
  SafeArrives
CHECK_DEADLOCK FALSE
