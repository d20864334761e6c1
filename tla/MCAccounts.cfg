CONSTANTS
  Guardian = {g1, g2}
  Pin = {p1, p2}
  PinRequest = {r1, r2}
  PIN_MAX_ATTEMPTS = 2
  PIN_LOCKOUT = 1
  Mistyping = TRUE
  Free = Free
  User = {u1}
  Key = {k1}
  Challenge = {h1, h2}
  LoginRequest = {l1, l2}
  RegisterRequest = {s1}
  MaxCount = 1
  CHALLENGE_TTL = 1
  SESSION_TTL = 1
  Nobody = Nobody
  Code = {c1}
  Number = {n1}
  Device = {d1, d2}
  PairRequest = {r1, r2}
  DEVICE_CODE_MAX_ATTEMPTS = 1
  CODE_TTL = 1
  MaxPairClock = 1
  NotYet = NotYet
  Kid = Kid
  Adult = Adult
  Phone = Phone
  Tablet = Tablet
  PushToken = {Phone, Tablet}
  Deaf = {}
  Leaving = {Phone}
  Claim <- Claims
  RegRequest = {r1, r2}
  Notification = {n1}
  MaxRowId = 2
  Unclaimed = Unclaimed
SPECIFICATION AccountsSpec
INVARIANTS
  AccountsTypeOK
  PinHolds
  LoginsHold
  PairedOnce
  PushHolds
PROPERTIES
  ShutOutStaysOut
  EveryoneIsAnswered
CHECK_DEADLOCK FALSE
