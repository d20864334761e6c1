CONSTANTS
  JoinTTL = 1
  Lifetime = 1
  RateCap = 2
  MaxMoves = 3
  MaxTime = 0
  Day = 6
  Week = 3
  Grace = 1
  Horizon = 4
  DefaultWall = 3
  MaxDefers = 3
  MaxNow = 20
  NoDate = NoDate
  Unbounded = Unbounded
  Never = Never
  Ada = Ada
  Ben = Ben
  MAX_PIN_ATTEMPTS = 3
  COOLDOWN = 2
  ESCALATION_TTL = 3
  CallSession = {s1, s2}
  NoSession = NoSession
  Recording = {r1, r2}
  MAX_ATTEMPTS = 3
  MayLeave = TRUE
  NoRecording = NoRecording
  DAILY_CEILING = 3
  CHILD_MUTE = 1
  DEFERRAL_STALE_AFTER = 1
  ChildAge = 3
  Silence = Silence
  Pending <- Signals
  YearDays = 20
  DayMinutes = 4
  MaxLookahead = 30
  Parent = {1, 2, 3}
  Orders <- TheOrders
  WindowSets <- TheWindows
  FirstDay <- TheFirstDay
  LastDay = 44
  Unset = Unset
  Guardian = {g1, g2}
  Relative = {u1}
  MaxInvites = 3
  MaxAsks = 5
  MAX_PENDING_ASKS = 2
  PingLimit = 2
  MaxTaps = 3
  MaxDate = 1
  Youngest = 1
  Eldest = 3
  StartAge = 14
  EndAge = 18
  Consenting = {g1, g2}
  SlotMinutes = 2
  Answers = {free, busy}
  Kid = {k1, k2}
  Dog = Dog
  House = House
  Kinds <- TheKinds
  Dots = 3
  Deck <- TheDeck
  StoryEnds = 3
  MovesMax = 6
  LateMax = 0
  Offered <- ThePlaces
  Nothing = Nothing
  Size = 5
  MenRows = 1
  Sea = 2
  Fleet <- TheFleet
  Alphabet = {"a", "b", "c", "d", "e"}
  Secret = {"a", "b"}
  LIVES = 2
  Hidden <- TheWords
  Labels = {Dog, House}
  ChainMax = 4
  None = None
  RoomKinds <- TheKinds
  RoomMoves = 3
  MemoryTries = 2
  Objects = {Dog, House}
  Prompts = {1, 2}
  DROP_AFTER = 2
  RESTORE_AFTER = 6
  Elapsed = {1, 3}
  LiveKinds = {"copy_me", "two_truths", "twenty_questions"}
  MaxRounds = 7
  MaxGuesses = 3
  TotalPages = 3
  ZoneSets <- TheZones
  Viewports <- TheScreens
  Actor <- ThePainters
  KindOf <- TheirKind
  MaxStrokes = 3
  LastInstant = 5
  Region = {body, head}
  Hex = {yellow, brown}
  PickedFirst = yellow
  MaxFills = 3
  MaxMarks = 4
  DOODLE_STAMPS = {"heart"}
  Scenes <- ThePictures
  Radius = 9
  Story <- TheStories
  LinesOf <- TheLengths
  Seeded <- TheShelf
  MinBook = 3
  LastStarDay = 3
  MaxReads = 2
  WrittenAtAge = 9
  MIN_SEAL_YEARS = 1
  MAX_SEAL_TO_AGE = 12
  MaxLetters = 2
  Item = {i1, i2}
  Era = {e1}
  Caption = {c1}
  NoCaption = NoCaption
  MadeAt <- TheDaysOfWorks
  GalleryYear = 4
  MIN_WORKS_FOR_EXHIBITION = 3
  RECEDE_AFTER_DAYS = 2
  LastShowDay = 5
  MaxShows = 3
  MaxInterests = 3
  TemplatesPerKind = 3
  GenericPerKind = 2
  PromptLimit = 5
  MaxLessons = 2
  Days <- TheDates
  MAX_NAME_LENGTH = 1
  MIN_AGE = 2
  MAX_AGE = 9
  Tapped <- TheTaps
  BirthDates <- TheBirthDates
  Grownup = {g1, g2}
  PickedMonths = {2, 12}
  PickedDays = {28, 29, 30, 31}
  PALETTE = {yellow, brown}
  MaxChoices = 3
  MinAges = {4, 5, 6, 7}
  Device = {d1, d2}
  Skipped = Skipped
  Children <- TheChildren
  Sessions <- TheSessions
  FirstEdges <- TheEdges
  RecordingOfAda = RecordingOfAda
  RecordingOfBen = RecordingOfBen
  BlobKey <- TheRecordings
  KidOf <- TheChildOf
  Fetch = {f1}
  SIGNED_URL_TTL_SECONDS = 1
  MEDIA_SIGNING_SECRET = TRUE
  LastSecond = 2
  MaxRestarts = 1
SPECIFICATION RulesSpec
INVARIANTS
  RulesTypeOK
  WordsArrive
  EdgesDecide
  LockHolds
  DaysAreFair
  GamesAreFair
  RequestsAreServed
PROPERTIES
  SettledStaysSettled
  StepsKeepTheRules
CHECK_DEADLOCK FALSE
