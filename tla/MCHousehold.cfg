CONSTANTS
  Invite = {i1, i2}
  Email = {e1}
  Inviter = {g1}
  InviteRequest = {r1, r2}
  INVITE_TTL = 1
  MaxInviteClock = 1
  Nil = Nil
  Caller = {g1}
  Call = {k1}
  CallRequest = {r1, r2}
  LiveKitConfigured = TRUE
  Parent = {p1}
  RecordRequest = {r1, r2}
  FREE_CERTIFIED_PER_YEAR = 1
  YEAR = 2
  MajorityAt = 1
  MaxRecordClock = 2
  MaxNotes = 2
  MaxExports = 2
  NoHolder = NoHolder
  PutRequest = {r1, r2, r3}
  Item = {x, y}
  DoseRequest = {r1, r2}
  Letter = {l1}
  LetterRequest = {d1, d2}
  MIN_SEAL_YEARS = 1
  MAX_SEAL_TO_AGE = 12
  FirstAge = 10
  LastAge = 12
  Unset = Unset
  Ada = Ada
  Ben = Ben
  Kin = {Ada, Ben}
  Jacket = Jacket
  Camp = Camp
  BagItem = {Jacket}
  Expense = {Camp}
  ChildOf <- Siblings
  Mum = Mum
  Dad = Dad
  Sister = {Ada, Ben}
  Adult = {Mum, Dad}
  ParentAdult = {Mum}
  HouseEdges <- EdgesOfDay
  HouseRequest = {r1, r2}
  DayHours = 2
  ExchangeHour = 1
  LastHour = 2
  CARE_NOTE_TTL = 2
  MaxRows = 2
  HourSlot = {0}
  Plain = Plain
SPECIFICATION HouseholdSpec
INVARIANTS
  HouseholdTypeOK
  InviteHolds
  CallsHold
  RecordsHold
  RowsAreWhole
PROPERTIES
  OverIsOver
  HandoverEndsAccess
CHECK_DEADLOCK FALSE
