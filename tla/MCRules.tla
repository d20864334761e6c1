------------------------------- MODULE MCRules -------------------------------
(***************************************************************************)
(* The rules that are kept on one device or decided by one function: when  *)
(* a message is scheduled and let through, who may do what, and the parts  *)
(* of the app whose state is handed from call to call.  They share no      *)
(* state; a behaviour is focused on one of them and the others keep still  *)
(* in an initial state.                                                    *)
(***************************************************************************)
EXTENDS GameTable, Materialize, FamilyGraph, Kiosk, Outbox, Signal, Custody, Circle, GrowingUp,
  Contests, Playroom, LiveCall, SharedCanvas, QuietTime, Keepsakes, FirstRun, Access, MediaLinks

CONSTANTS MaxNow, Ada, Ben, Dog, House, RecordingOfAda, RecordingOfBen

ASSUME NowAssumption == MaxNow \in Nat

VARIABLES
  focus,
  c, i, asOf,              \* a context and an intent, swept again at every tick
  at, defers, arrival,     \* a delivery meeting the gate, and its defer count
  postponed,               \* history: how often it was put off
  held, question, instant    \* the edges of a person, and what is asked of them

rulesVars == <<focus, c, i, asOf, at, defers, arrival, postponed, held, question, instant>>
sweepVars == <<i, asOf>>
gateVars == <<at, defers, arrival, postponed>>
edgeVars == <<held, question, instant>>

-----------------------------------------------------------------------------
(* Contexts of a child, with six ticks to a day and three days to a week:  *)
(* timelines with no trip, with a short trip west and with a move east;    *)
(* schedules with and without a day-part that wraps midnight, one with no  *)
(* time she can be reached at, a school day and a bedtime once a week.     *)

Timelines ==
  { {},
    {[start |-> 3, end |-> 9, shift |-> 2]},
    {[start |-> 5, end |-> Unbounded, shift |-> -1]} }

Bedtime == [kind |-> "bedtime", wall |-> 4, until |-> 5, days |-> {0, 1, 2}, reachable |-> TRUE]
Asleep  == [kind |-> "asleep",  wall |-> 5, until |-> 1, days |-> {0, 1, 2}, reachable |-> FALSE]
Wake    == [kind |-> "wake",    wall |-> 1, until |-> 2, days |-> {0, 2},    reachable |-> TRUE]
School  == [kind |-> "school",  wall |-> 2, until |-> 3, days |-> {1},       reachable |-> FALSE]

Schedules == { {}, {Bedtime}, {Asleep}, {Bedtime, Asleep, Wake}, {Wake, School, Asleep},
               {[Bedtime EXCEPT !.days = {1}]} }

Contexts == {[home |-> h, tz |-> z, parts |-> p] :
               h \in {0, 1, 3}, z \in Timelines, p \in Schedules}

-----------------------------------------------------------------------------
(* Materialize: two successive sweeps over an unchanged pending intent.    *)

NoteFor(policy, date, instantOf, expires) ==
  [state |-> "pending", policy |-> policy, kind |-> "bedtime", date |-> date,
   instant |-> instantOf, expires |-> expires]

Parked == [NoteFor("immediate", NoDate, NoDate, 60) EXCEPT !.state = "expired"]

Notes ==
  {NoteFor(p, NoDate, NoDate, e) : p \in {"immediate", "at_daypart", "when_reachable"}, e \in {9, 60}}
  \cup {NoteFor(p, d, NoDate, 60) : p \in {"at_daypart", "on_local_date"}, d \in {0, 1, 2}}
  \cup {NoteFor(p, NoDate, t, 60) : p \in {"at_instant", "on_event"}, t \in {4, 8}}
  \cup {NoteFor("on_event", NoDate, NoDate, 60), Parked}

Result == materialize(i, c, asOf)

SweepInit ==
  \/ focus = "sweep" /\ c \in Contexts /\ i \in Notes
  \/ focus # "sweep" /\ i = Parked

NextSweep == asOf < MaxNow /\ asOf' = asOf + 1 /\ UNCHANGED <<c, i>>

-----------------------------------------------------------------------------
(* The gate: a delivery that is blocked is tried again at the instant      *)
(* gate() told it to defer to, with the defer count gate() returned.       *)

Verdict == gate(c, at, FALSE, defers)

GateOpens ==
  /\ arrival = "trying" /\ Verdict.allow
  /\ arrival' = "arrived"
  /\ UNCHANGED <<c, at, defers, postponed>>

Postpone ==
  /\ arrival = "trying" /\ ~Verdict.allow /\ Verdict.deferTo.ok
  /\ at' = Verdict.deferTo.at /\ postponed' = postponed + 1
  /\ defers' = Verdict.defers
  /\ UNCHANGED <<c, arrival>>

\* No reachable day-part inside the horizon: gate() has no instant to offer.
NowhereToGo ==
  /\ arrival = "trying" /\ ~Verdict.allow /\ ~Verdict.deferTo.ok
  /\ arrival' = "no_window"
  /\ UNCHANGED <<c, at, defers, postponed>>

GateNext == GateOpens \/ Postpone \/ NowhereToGo

-----------------------------------------------------------------------------
(* The edges of one person.                                                *)

Edge(child, role, from, to) ==
  [child |-> child, role |-> role, denied |-> {}, observerOnly |-> FALSE, restricted |-> FALSE,
   validFrom |-> from, validTo |-> to, expiresAt |-> Never, closedAt |-> Never, ladderStep |-> Never]

Guardianships == {Edge(Ada, "guardian", f, t) : f \in {Never, 1, 2}, t \in {Never, 1, 2}}
Helpers == {Edge(Ada, r, 1, t) : r \in {"sitter", "coordinator"}, t \in {Never, 2}}
Limited(o, r, n, l) ==
  [Edge(Ada, "guardian", 1, Never) EXCEPT !.observerOnly = o, !.restricted = r, !.denied = n, !.ladderStep = l]
LimitedGuardianships ==
  {Limited(o, r, n, l) : o \in BOOLEAN, r \in BOOLEAN, n \in {{}, {"call"}}, l \in {Never, "none"}}

EdgesKnown ==
  Guardianships \cup Helpers \cup {[e EXCEPT !.expiresAt = 2] : e \in Helpers}
    \cup {[Edge(Ada, "guardian", Never, Never) EXCEPT !.closedAt = 1]}
    \cup LimitedGuardianships \cup {Edge(Ben, "guardian", Never, Never)}

Query(action, isChild, court) == [action |-> action, isChild |-> isChild, court |-> court]

Asked ==
  {Query(a, FALSE, FALSE) : a \in {"call", "settings", "medication.view", "journal.read"}}
  \cup {Query("export.certified", FALSE, court) : court \in BOOLEAN}
  \cup {Query("expense.view", isChild, FALSE) : isChild \in BOOLEAN}

EdgesInit ==
  \/ /\ focus = "edges"
     /\ \E e, f \in EdgesKnown : held = {e, f}
     /\ question \in Asked
  \/ /\ focus # "edges" /\ held = {}
     /\ question = Query("call", FALSE, FALSE)

Decision(hers) == can(question.action, hers, Ada, instant, question.isChild, question.court)

TimePasses == instant < 3 /\ instant' = instant + 1 /\ UNCHANGED <<held, question>>

-----------------------------------------------------------------------------
(* Inputs of Custody and Signal. *)

Winter == [name |-> "winter", start |-> 17, end |-> 2, evenYearSide |-> "A", priority |-> 1]
OneDay == [name |-> "day", start |-> 18, end |-> 18, evenYearSide |-> "B", priority |-> 1]
Spring == [name |-> "spring", start |-> 7, end |-> 10, evenYearSide |-> "B", priority |-> 2]

TheOrders ==
  [pattern : {"threes", "fives", "weeks"}, holidays : {{Winter, OneDay}, {Winter, Spring}},
   effectiveFrom : {-20}, effectiveTo : {Unset, 25}, sideA : {1}, sideB : {2}]
  \cup {[pattern |-> "fives", holidays |-> {}, effectiveFrom |-> -5, effectiveTo |-> Unset,
         sideA |-> 1, sideB |-> Unset]}

Free(g, d, s, e) == [guardianId |-> g, weekday |-> d, startLocal |-> s, endLocal |-> e]
Nobody == {}
TheWindows ==
  { Nobody,
    {Free(1, 0, 0, 2), Free(2, 1, 1, 4), Free(3, 1, 1, 3)},
    {Free(2, 1, 0, 3), Free(2, 1, 1, 2), Free(3, 1, 1, 4)} }
TheFirstDay == -16

Signals ==
  {[kind |-> "come_back", at |-> 1, senderIsPresent |-> TRUE, inCall |-> TRUE],
   [kind |-> "louder", at |-> 2, senderIsPresent |-> FALSE, inCall |-> FALSE],
   [kind |-> "come_back", at |-> 3, senderIsPresent |-> FALSE, inCall |-> TRUE],
   [kind |-> "turn_it_round", at |-> 0, senderIsPresent |-> TRUE, inCall |-> FALSE]}

(* Inputs of Games and Contests. *)
TheKinds == {"tictactoe", "dotsboxes", "memory", "story"}
TheDeck == <<Dog, House, Dog, House>>
ThePlaces ==
  [tictactoe |-> {0, 1, 2, 4, 8}, dotsboxes |-> SidesOf(<<0, 0>>) \cup SidesOf(<<0, 1>>),
   memory |-> 0 .. 3, story |-> {"", "a line"}]
TheFleet == [destroyer |-> 2, boat |-> 1]
TheWords == [rex |-> {1, 2, 3}, xer |-> {1, 2, 3}, ada |-> {4, 5, 6}]

(* Inputs of LiveCall, SharedCanvas, QuietTime and Keepsakes. *)
Zone(x, y, w, h) == [x |-> x, y |-> y, w |-> w, h |-> h]
TheZones == {{}, {Zone(12, 12, 7, 7)}, {Zone(0, 0, 20, 4), Zone(0, 14, 8, 6)}}
TheScreens ==
  {[w |-> s[1], h |-> s[2]] :
     s \in {<<344, 882>>, <<690, 829>>, <<300, 240>>, <<1280, 800>>, <<160, 160>>, <<500, 320>>}}

ThePainters == {"her", "dad", "gran"}
TheirKind == [her |-> "child", dad |-> "guardian", gran |-> "observer"]

TheStories == {"tiger", "bear", "fox"}
TheLengths == [tiger |-> 3, bear |-> 2, fox |-> 2]
ThePictures ==
  {<<<<20, 20>>, <<26, 22>>, <<70, 60>>>>, <<<<20, 20>>, <<28, 20>>, <<36, 20>>, <<80, 80>>, <<81, 82>>>>}
TheShelf ==
  <<[code |-> "tiger", starredAt |-> 6, timesRead |-> 9], [code |-> "fox", starredAt |-> 8, timesRead |-> 2]>>

TheDaysOfWorks == {1, 2, 5, 7, 8}

Unarranged == [hidden |-> FALSE, era |-> NoEra, byGuardian |-> NoCaption, byChild |-> NoCaption]

(* Inputs of FirstRun: days about the end of two Februaries and of a year. *)
TheDates ==
  {<<2023, 2, 27>>, <<2023, 2, 28>>, <<2023, 3, 1>>, <<2024, 2, 28>>, <<2024, 2, 29>>, <<2024, 3, 1>>,
   <<2024, 12, 31>>, <<2025, 1, 1>>}
TheBirthDates == {Skipped, <<2016, 2, 29>>, <<2018, 12, 31>>}
TheTaps == {Skipped, 0, 7, 10}

(* Inputs of Access and MediaLinks. *)
TheChildren == {Ada, Ben}

TheSessions ==
  {[roleName |-> "guardian", child |-> Never, device |-> TRUE],
   [roleName |-> "sitter", child |-> Never, device |-> FALSE],
   [roleName |-> "child", child |-> Ada, device |-> TRUE]}

EdgeOf(child, role, expiresAt) ==
  [child |-> child, role |-> role, expiresAt |-> expiresAt, closedAt |-> Never, validFrom |-> Never,
   validTo |-> Never, restricted |-> FALSE, observerOnly |-> FALSE, ladderStep |-> "open", denied |-> {}]

TheEdges ==
  {{}} \cup
  {{e} : e \in {EdgeOf(Ada, "guardian", Never), EdgeOf(Ada, "guardian", 1),
                 EdgeOf(Ada, "sitter", Never), EdgeOf(Ada, "coordinator", 1),
                 [EdgeOf(Ada, "guardian", Never) EXCEPT !.restricted = TRUE]}}

TheRecordings == {RecordingOfAda, RecordingOfBen}
TheChildOf == [k \in TheRecordings |-> IF k = RecordingOfAda THEN Ada ELSE Ben]

-----------------------------------------------------------------------------

Component == {"table", "sweep", "gate", "edges", "kiosk", "outbox", "signal", "custody",
              "observers", "asks", "pings", "group", "growing",
              "games", "checkers", "battleship", "letters", "chain",
              "room", "draughts", "ocean", "spoken", "tray",
              "stream", "live", "around", "pane", "canvas",
              "colouring", "doodle", "spot", "library",
              "sealed", "arranged", "shown", "lessons",
              "firstrun", "birthday", "colours", "visits",
              "api", "links"}

Settling == {"firstrun", "birthday", "colours", "visits"}

\* An input the other behaviours do not vary.
Fixed(part, set, v) == v \in set /\ (focus # part => v = CHOOSE x \in set : TRUE)

RulesInit ==
  /\ focus \in Component
  /\ asOf = 0 /\ defers = 0 /\ arrival = "trying" /\ postponed = 0 /\ instant = 0
  \* What the behaviours about something else do not vary.
  /\ focus # "games" => game = newGame("story")
  /\ focus # "custody" => custody_order = Unset /\ availability = Nobody
  /\ focus # "outbox" => online = TRUE
  /\ focus # "signal" => reach = "open" /\ surfaceBusy = FALSE
  /\ focus # "api" => edges = {}
  /\ focus # "arranged" => hungAway = {} /\ archive = [k \in Item |-> Unarranged]
  /\ Fixed("spoken", chStart, spoken) /\ Fixed("tray", newKim, kim)
  /\ Fixed("spot", {SceneOf(p) : p \in Scenes}, spotScene) /\ Fixed("library", Story, tale)
  /\ focus = "firstrun" => theDay = <<2024, 12, 31>>
  /\ focus \notin Settling => theDay = <<2025, 1, 1>>
  /\ focus \notin {"firstrun", "birthday", "visits"} => birthDate = Skipped
  /\ EdgesInit
  /\ Init /\ KioskInit /\ OutboxInit /\ SignalInit /\ CustodyInit /\ CircleInit /\ GrowingInit
  /\ GamesInit /\ ContestsInit /\ PlayroomInit /\ LiveCallInit /\ CanvasInit /\ QuietInit
  /\ KeepsakesInit /\ FirstRunInit /\ AccessInit /\ LinksInit
  /\ SweepInit
  /\ focus = "gate" => c \in Contexts
  /\ focus \notin {"sweep", "gate"} => c = [home |-> 0, tz |-> {}, parts |-> {}]
  /\ Fixed("gate", 0..MaxNow, at)

RulesNext ==
  /\ UNCHANGED focus
  /\ IF focus = "table" THEN Next ELSE UNCHANGED vars
  /\ IF focus = "sweep" THEN NextSweep ELSE UNCHANGED sweepVars
  /\ IF focus = "gate" THEN GateNext ELSE UNCHANGED gateVars
  /\ focus \in {"sweep", "gate"} \/ UNCHANGED c
  /\ IF focus = "edges" THEN TimePasses ELSE UNCHANGED edgeVars
  /\ IF focus = "kiosk" THEN KioskNext ELSE UNCHANGED kioskVars
  /\ IF focus = "outbox" THEN OutboxNext ELSE UNCHANGED outboxVars
  /\ IF focus = "signal" THEN SignalNext ELSE UNCHANGED signalVars
  /\ IF focus = "custody" THEN CustodyNext ELSE UNCHANGED custodyVars
  /\ IF focus = "observers" THEN ObserversNext ELSE UNCHANGED observerVars
  /\ IF focus = "asks" THEN AsksNext ELSE UNCHANGED askVars
  /\ IF focus = "pings" THEN PingsNext ELSE UNCHANGED pingVars
  /\ IF focus = "group" THEN GroupNext ELSE UNCHANGED groupVars
  /\ IF focus = "growing" THEN GrowingNext ELSE UNCHANGED growingVars
  /\ IF focus = "games" THEN GamesNext ELSE UNCHANGED gameVars
  /\ IF focus = "api" THEN AccessNext ELSE UNCHANGED accessVars
  /\ IF focus = "links" THEN LinksNext ELSE UNCHANGED linkVars
  /\ IF focus = "room" THEN RoomNext ELSE UNCHANGED roomVars
  /\ IF focus = "draughts" THEN DraughtsNext ELSE UNCHANGED draughtsVars
  /\ IF focus = "ocean" THEN OceanNext ELSE UNCHANGED oceanVars
  /\ IF focus = "spoken" THEN SpokenNext ELSE UNCHANGED spokenVars
  /\ IF focus = "tray" THEN TrayNext ELSE UNCHANGED trayVars
  /\ IF focus = "stream" THEN StreamNext ELSE UNCHANGED streamVars
  /\ IF focus = "live" THEN LiveNext ELSE UNCHANGED liveVars
  /\ IF focus = "around" THEN AroundNext ELSE UNCHANGED aroundVars
  /\ IF focus = "pane" THEN PaneNext ELSE UNCHANGED paneVars
  /\ IF focus = "canvas" THEN CanvasNext ELSE UNCHANGED canvasVars
  /\ IF focus = "colouring" THEN ColourNext ELSE UNCHANGED colourVars
  /\ IF focus = "doodle" THEN DoodleNext ELSE UNCHANGED doodleVars
  /\ IF focus = "spot" THEN SpotNext ELSE UNCHANGED spotVars
  /\ IF focus = "library" THEN LibraryNext ELSE UNCHANGED libraryVars
  /\ IF focus = "sealed" THEN LettersKept ELSE UNCHANGED letterVars
  /\ IF focus = "arranged" THEN ArchiveKept ELSE UNCHANGED archiveVars
  /\ IF focus = "shown" THEN ShowsKept ELSE UNCHANGED showVars
  /\ IF focus = "lessons" THEN LessonsKept ELSE UNCHANGED lessons
  /\ IF focus \in Settling THEN FirstRunNext ELSE UNCHANGED firstRunVars
  /\ focus = "firstrun" \/ UNCHANGED firstVars
  /\ focus = "birthday" \/ UNCHANGED birthdayVars
  /\ focus = "colours" \/ UNCHANGED colourHistoryVars
  /\ focus = "visits" \/ UNCHANGED visitVars
  /\ CASE focus = "checkers" -> CheckersNext
       [] focus = "battleship" -> BattleshipNext
       [] focus = "letters" -> LettersNext
       [] focus = "chain" -> ChainNext
       [] OTHER -> UNCHANGED contestVars

allVars == <<rulesVars, vars, kioskVars, outboxVars, signalVars, custodyVars, circleVars, growingVars,
  gameVars, contestVars, playroomVars, liveCallVars, canvasVars, quietVars, keepVars,
  firstRunVars, accessVars, linkVars>>

RulesSpec == RulesInit /\ [][RulesNext]_allVars

-----------------------------------------------------------------------------
(* Properties. *)

\* materialize.ts, PAST_GRACE_MINUTES: whatever the policy, timeline and
\* schedule, nothing is scheduled more than Grace into the past, nothing is
\* scheduled once the intent has expired, and a terminal intent is never
\* scheduled again.
NeverDumpedLate ==
  Result.ok => /\ Result.at >= asOf - Grace
               /\ asOf < i.expires
               /\ i.state \notin Terminal

\* Every slot of the intent's day-part on dates the child can still reach.
FutureSlots ==
  {PartInstant(c, i.kind, d) : d \in
     {e \in LocalDate(c, asOf)..(LocalDate(c, asOf) + 2 * Horizon) :
        dayPartsFor(c, i.kind, e) # {}}}

\* materialize.ts, at_daypart: an undated intent goes to the earliest slot,
\* from the child's own today on, that is not past grace; it is skipped only
\* when the horizon holds no such slot.
RollsToEarliestSlot ==
  i.policy = "at_daypart" /\ i.date = NoDate /\ Result.ok =>
    LET slots == {t \in FutureSlots : t >= asOf - Grace}
    IN  Result.at = LeastOf(slots)

\* materialize.ts, on_local_date: a named night is never moved.  Two sweeps
\* that both schedule the intent schedule it at the same instant, however the
\* child travelled in between, and once the night is past it stays past.
NamedNightNeverMoves ==
  [i.policy = "on_local_date" =>
     /\ Result.ok /\ Result'.ok => Result'.at = Result.at
     /\ Result.reason = "target_in_past" => ~Result'.ok]_rulesVars

\* gate.ts, MAX_DEFERS: a postponement cannot postpone itself forever.  On a
\* travel day the gate reads the clock in the zone of the instant and the
\* window in the zone of that date's noon, so a postponement to the very same
\* instant does happen; the count is what ends it, before one postponement too
\* many.
DecidedInTime == postponed <= MaxDefers

\* gate.ts: a delivery is postponed into the future or retried at once, never
\* moved back in time, although the gate and the window read different zones.
PostponedForward == [at' >= at]_rulesVars

\* authorize.ts, can: one edge more never takes an answer away, in whatever state
\* that other edge is, and the reason given for a refusal is one of some edge.
AnotherEdgeNeverHurts ==
  \A e \in held : Decision({e}) = "allow" => Decision(held) = "allow"

\* authorize.ts, can: an edge closed at this very instant, which is how a handover
\* or a deactivation takes access away, counts for no more than an edge that never
\* was, and leaves what the person's other edges give untouched.
ClosedIsGone ==
  \A e \in held :
    LET others == held \ {e} IN
    Decision(others \cup {[e EXCEPT !.closedAt = instant]}) = "allow" <=> Decision(others) = "allow"

-----------------------------------------------------------------------------
(* What is checked: the properties above and those of the components, by   *)
(* what the household relies on.                                           *)

\* A component that a behaviour is not about is in an initial state, which the
\* behaviours that are about it start from.
About(parts, P) == focus \in parts => P

\* Every component keeps the types of its state.
RulesTypeOK ==
  /\ About({"table"}, TypeOK) /\ About({"kiosk"}, KioskTypeOK) /\ About({"outbox"}, OutboxTypeOK)
  /\ About({"signal"}, SignalTypeOK) /\ About({"games"}, GamesTypeOK)
  /\ About({"checkers", "battleship", "letters", "chain"}, ContestsTypeOK)
  /\ About({"stream", "live", "around", "pane"}, LiveCallTypeOK)
  /\ About({"canvas"}, CanvasTypeOK) /\ About({"api"}, AccessTypeOK)
  /\ About(Settling, FirstRunTypeOK)
  /\ arrival \in {"trying", "arrived", "no_window"} /\ postponed \in 0..(MaxDefers + 1)

\* materialize.ts, gate.ts and offline.ts: what one of them makes for the other
\* reaches her at the moment it was meant for, within a bounded number of
\* postponements; what she makes is neither discarded nor stored under two keys.
WordsArrive ==
  /\ About({"sweep"}, NeverDumpedLate /\ RollsToEarliestSlot)
  /\ DecidedInTime
  /\ About({"outbox"}, NeverDiscarded /\ StoredOnceHeard)

\* authorize.ts and observer.ts: an answer is made of the edges a person holds and
\* of nothing else: an edge more never hurts, a closed edge is as none, and an
\* invitation is revoked by whoever made it.
EdgesDecide ==
  /\ About({"edges"}, AnotherEdgeNeverHurts /\ ClosedIsGone)
  /\ About({"observers"}, OnlyTheInviterRevokes)

\* api.ts, signed_media.mjs: a request is served in the order its checks have, and
\* a link serves the whole recording it was minted for, for its few minutes.
RequestsAreServed ==
  About({"api"}, ServedInOrder) /\ About({"links"}, ServedAsMinted /\ LinksLive)

\* schedule.ts, signal.ts, agency.ts, pending.ts, rungs.ts and family.ts: her days
\* are shared fairly and answered for alike: the parents' shares, the chain of
\* handovers, what is shown free, one answer to every minute, what remains open,
\* the ceiling of interruptions, every tap and every sibling's turn; and
\* maturation.ts, rungs.ts, exchange.ts, showcase.ts and library.ts: what she keeps
\* is hers: sealed until her age, arranged by her, shown while it is alive.
\* onboarding.ts, calendar.ts, palette.ts and favorites.ts: her first run leaves her
\* with somebody to talk to, her own age and birthday, and news that is new.
DaysAreFair ==
  /\ About({"custody"}, FairShare /\ HandoversChain /\ ShownFreeKnowsIt)
  /\ About({"growing"}, OneAnswerAMinute /\ RemainingIsTrue)
  /\ About({"signal"}, CeilingHolds)
  /\ About({"pings"}, EveryTapReaches) /\ About({"group"}, TurnsComeRound)
  /\ About({"sealed"}, SealedUntilHerAge) /\ About({"shown"}, ShownIsAlive)
  /\ About({"arranged"}, HersToArrange /\ ExhibitionIsTheGallery)
  /\ About({"library"}, ShelfAndBookAgree)
  /\ About({"firstrun"}, TapsRaiseNothing /\ NeverNobody) /\ About({"birthday"}, HerOwnDate)
  /\ About({"colours"}, ChangeIsAChange) /\ About({"visits"}, NewIsAnnounced)

\* table.ts, games.ts, games2.ts and games3.ts: an honest move is neither refused
\* nor lost, the tally is what lies on the board, whoever is to move can move, the
\* fleet is sunk exactly when the game is won, and the chain is one both made.
\* play.ts, modes.ts, stream.ts, around.ts and pane.ts: nor does the app keep her
\* waiting: the reply comes, the deck comes round, the picture is shed quickly, the
\* call winds down and the pane stays on the screen.  canvas.ts and activities.ts:
\* an undo undoes what was done last, and every difference can be found.
GamesAreFair ==
  /\ About({"table"}, FairPlayInTurn /\ NoLostMove) /\ About({"games"}, TallyIsTrue)
  /\ About({"checkers"}, SomeoneCanMove) /\ About({"battleship"}, SunkIsWon)
  /\ About({"chain"}, ChainIsShared)
  /\ About({"draughts", "ocean", "spoken"}, TurnComesBack) /\ About({"room"}, NeverHangs)
  /\ About({"live"}, DeckComesRound /\ GuessedOnce) /\ About({"stream"}, QuickToShed)
  /\ About({"around"}, CallWindsDown) /\ About({"pane"}, PaneStays)
  /\ About({"canvas"}, RedoIsTheLastUndo) /\ About({"spot"}, EveryDifferenceIsFound)
  /\ About({"colouring", "doodle"}, UndoIsExact)

\* What was settled stays settled: a named night, an instant deferred to, a
\* recording the server refused, a right she was granted and a scaffold that
\* faded, the countdowns on her ribbon and to her birthday, the one who is shown as
\* free, and what she was answered, taught or shown.
SettledStaysSettled ==
  [][/\ NamedNightNeverMoves /\ PostponedForward /\ RefusedStaysRefused
     /\ GrantsOnlyGrow /\ FadedStaysFaded /\ KeptStaysKept
     /\ CountdownKeepsItsWord /\ PresenceKeepsItsWord /\ SleepsCountDown]_allVars

\* What a step may never do: take back more or less than the last turn, leave a
\* capture lying, drop the newest ask, bring a signal into silent hours or before
\* one that came first, lift a picture too soon, cover what is read, skip her turn,
\* change an answer, or bring back what was erased.
StepsKeepTheRules ==
  [][/\ TakebackUndoes /\ CapturesAreMandatory /\ AsksKeepTheNewest
     /\ QuietIsQuiet /\ PrioritiseIsSteady /\ SlowToRestore /\ OutOfTheWay
     /\ TurnComesBackToHer /\ AnswersStand /\ ErasedIsForGood]_allVars
=============================================================================
