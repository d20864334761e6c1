------------------------------ MODULE LiveCall ------------------------------
(***************************************************************************)
(* What is layered over a running call: the ladder of picture qualities    *)
(* (stream.ts), the games that are played in front of the camera (live.ts),*)
(* the closing ritual and reading together (around.ts), and the pane his   *)
(* picture is in (pane.ts, camera.ts), each as play.ts keeps and drives    *)
(* its state.  The order of a shuffled deck only shows as cards are drawn, *)
(* so a deck is a set of cards and drawing takes any.                      *)
(***************************************************************************)
EXTENDS Integers, Sequences, FiniteSets
LOCAL INSTANCE SequencesExt

CONSTANTS
  DROP_AFTER, RESTORE_AFTER,  \* seconds of trouble, of good line
  Elapsed,                    \* lengths of a tick
  LiveKinds,                  \* the games offered here
  MaxRounds, MaxGuesses,      \* bounds
  TotalPages,
  ZoneSets, Viewports         \* hot zones, in twentieths of the screen; screens

ASSUME LiveAssumption ==
  /\ Elapsed \subseteq Nat \ {0} /\ {DROP_AFTER, RESTORE_AFTER, TotalPages} \subseteq Nat \ {0}
  /\ {MaxRounds, MaxGuesses} \subseteq Nat

VARIABLES
  stream, rung,
  goodFor, badFor,  \* history: seconds without, and of, trouble on end
  live, liveConn,
  shown,            \* history: how often each card was drawn
  pict,
  closing, reading,
  pane, cam,
  closedBy          \* history: who closed the pane

streamVars == <<stream, rung, goodFor, badFor>>
liveVars == <<live, liveConn, shown, pict>>
aroundVars == <<closing, reading>>
paneVars == <<pane, cam, closedBy>>
liveCallVars == <<streamVars, liveVars, aroundVars, paneVars>>

Nil == "null"

-----------------------------------------------------------------------------
(* Stream stability. *)

newStream == [quality |-> 720, video |-> TRUE, trouble |-> 0, steady |-> 0]

QUALITIES == <<720, 360, 180>>
stepQualityDown(q) == QUALITIES[IF q = 180 THEN 3 ELSE 1 + IndexFirstSubSeq(<<q>>, QUALITIES)]
stepQualityUp(q) == QUALITIES[IF q = 720 THEN 1 ELSE IndexFirstSubSeq(<<q>>, QUALITIES) - 1]

\* One step, the picture last.
Shed(s) ==
  LET t == [s EXCEPT !.trouble = 0, !.steady = 0] IN
  IF s.quality # 180 THEN [t EXCEPT !.quality = stepQualityDown(@)] ELSE [t EXCEPT !.video = FALSE]

\* One step, the picture first.
Regain(s) ==
  LET t == [s EXCEPT !.trouble = 0, !.steady = 0] IN
  IF ~s.video THEN [t EXCEPT !.video = TRUE] ELSE [t EXCEPT !.quality = stepQualityUp(@)]

\* Mutant: a wobble does not start the count of good seconds again.
evaluateForgiving(s, condition, ms) ==
  IF condition = "strained"
  THEN IF s.trouble + ms < DROP_AFTER THEN [s EXCEPT !.trouble = @ + ms] ELSE Shed(s)
  ELSE IF s.steady + ms < RESTORE_AFTER THEN [s EXCEPT !.steady = @ + ms, !.trouble = 0] ELSE Regain(s)

evaluate(s, condition, ms) ==
  IF condition = "strained"
  THEN IF s.trouble + ms < DROP_AFTER THEN [s EXCEPT !.trouble = @ + ms, !.steady = 0] ELSE Shed(s)
  ELSE IF s.steady + ms < RESTORE_AFTER THEN [s EXCEPT !.steady = @ + ms, !.trouble = 0] ELSE Regain(s)

\* A history needs no more than this to decide any property.
Capped(n) == IF n > 4 * RESTORE_AFTER THEN 4 * RESTORE_AFTER ELSE n

streamTick(condition, ms) ==
  /\ stream' = evaluate(stream, condition, ms)
  /\ goodFor' = IF condition = "good" THEN Capped(goodFor + ms) ELSE 0
  /\ badFor' = IF condition = "good" THEN 0 ELSE Capped(badFor + ms)
  /\ UNCHANGED rung

\* modes.ts: the ladder of kinds of call, whose last step is a recording.
CallLadder == <<"hd", "sd", "audio_only", "banked">>
PlaceOf(r) == IndexFirstSubSeq(<<r>>, CallLadder)
callDrop == rung' = CallLadder[IF rung = "banked" THEN 4 ELSE PlaceOf(rung) + 1] /\ UNCHANGED <<stream, goodFor, badFor>>
callLift == rung' = CallLadder[IF rung = "hd" THEN 1 ELSE PlaceOf(rung) - 1] /\ UNCHANGED <<stream, goodFor, badFor>>

StreamInit == stream = newStream /\ rung = "hd" /\ goodFor = 0 /\ badFor = 0

StreamNext ==
  \/ \E condition \in {"good", "strained"}, ms \in Elapsed : streamTick(condition, ms)
  \/ callDrop \/ callLift

-----------------------------------------------------------------------------
(* Live games. *)

\* Which of them go on without the camera, and how many prompts each has.
LIVE_GAMES ==
  [simon_says |-> FALSE, copy_me |-> FALSE, freeze_dance |-> FALSE, charades |-> FALSE, i_spy |-> TRUE,
   show_me |-> TRUE, twenty_questions |-> TRUE, would_you_rather |-> TRUE, two_truths |-> TRUE,
   pictionary |-> TRUE]

DECKS ==
  [simon_says |-> 8, copy_me |-> 6, freeze_dance |-> 6, charades |-> 8, i_spy |-> 5, show_me |-> 7,
   twenty_questions |-> 1, would_you_rather |-> 5, two_truths |-> 3, pictionary |-> 8]

NoLiveGame == [kind |-> Nil]

newDeck(kind) == [remaining |-> 1 .. DECKS[kind], drawn |-> {}]

\* Mutant: a card that is drawn stays in the deck.
CardKept(d, card) == [d EXCEPT !.drawn = @ \cup {card}]

CardTaken(d, card) == [remaining |-> d.remaining \ {card}, drawn |-> d.drawn \cup {card}]

\* The deck the next card comes from: a fresh one when this one is through.
DrawnFrom(kind, d) == IF d.remaining = {} THEN newDeck(kind) ELSE d

\* draw(): every outcome of it.
draw(kind, d) == {<<card, CardTaken(DrawnFrom(kind, d), card)>> : card \in DrawnFrom(kind, d).remaining}

Otherwise(side) == IF side = "A" THEN "B" ELSE "A"

\* lvStart: he leads, and the connection is what a new call has.
lvStart(kind) ==
  /\ \E d \in draw(kind, newDeck(kind)) :
       /\ live' = [kind |-> kind, leader |-> "B", deck |-> d[2], currentPrompt |-> d[1], rounds |-> 0,
                   degraded |-> FALSE]
       /\ shown' = [card \in 1 .. DECKS[kind] |-> IF card = d[1] THEN 1 ELSE 0]
  /\ liveConn' = "good" /\ UNCHANGED pict

lvNext ==
  /\ live.kind # Nil /\ live.rounds < MaxRounds
  /\ \E d \in draw(live.kind, live.deck) :
       /\ live' = [live EXCEPT !.deck = d[2], !.currentPrompt = d[1], !.rounds = @ + 1,
                               !.leader = Otherwise(@)]
       /\ shown' = [shown EXCEPT ![d[1]] = @ + 1]
  /\ UNCHANGED <<liveConn, pict>>

\* A game that needs to be seen is left as it is, for next time.
degradeToAsync(s) == IF LIVE_GAMES[s.kind] THEN [s EXCEPT !.degraded = TRUE] ELSE s

lvConn(q) ==
  /\ liveConn' = q
  /\ live' = IF q = "lost" /\ live.kind # Nil THEN degradeToAsync(live) ELSE live
  /\ UNCHANGED <<shown, pict>>

newPictionary == [drawer |-> "B", guesses |-> <<>>, solved |-> FALSE]

pictStart == pict' = newPictionary /\ UNCHANGED <<live, liveConn, shown>>

\* Mutant: guessing goes on when the word is out.
CanGuessOn(side, text) == side # pict.drawer /\ text # ""

CanGuess(side, text) == ~pict.solved /\ side # pict.drawer /\ text # ""

guessDrawing(side, text) ==
  /\ CanGuess(side, text) /\ Len(pict.guesses) < MaxGuesses
  /\ pict' = [pict EXCEPT !.solved = (text = "word"),
                          !.guesses = Append(@, [side |-> side, correct |-> text = "word"])]
  /\ UNCHANGED <<live, liveConn, shown>>

LiveInit == live = NoLiveGame /\ liveConn = "good" /\ shown = <<>> /\ pict = newPictionary

LiveNext ==
  \/ \E kind \in LiveKinds : lvStart(kind)
  \/ lvNext
  \/ \E q \in {"good", "poor", "lost"} : lvConn(q)
  \/ pictStart
  \/ \E side \in {"A", "B"}, text \in {"", "word", "other"} : guessDrawing(side, text)

-----------------------------------------------------------------------------
(* The closing ritual, and reading together. *)

beginClosing == [beat |-> "one_thing", oneThing |-> Nil, nextTime |-> Nil, goodbye |-> Nil, skipped |-> FALSE]

OrNull(text) == IF text = "" THEN Nil ELSE text

closeStart == closing' = beginClosing /\ UNCHANGED reading

closingNext(text) ==
  /\ closing' =
       CASE closing.beat = "one_thing" -> [closing EXCEPT !.oneThing = OrNull(text), !.beat = "when_next"]
         [] closing.beat = "when_next" -> [closing EXCEPT !.nextTime = "friday", !.beat = "the_goodbye"]
         [] closing.beat = "the_goodbye" -> [closing EXCEPT !.goodbye = OrNull(text), !.beat = "done"]
         [] OTHER -> closing
  /\ UNCHANGED reading

skipClosing == closing' = [closing EXCEPT !.beat = "done", !.skipped = TRUE] /\ UNCHANGED reading

\* What comes of it is an ask for the next call.
closingToAsk == closing.oneThing

beginReading(startAt) ==
  [page |-> IF startAt < 1 THEN 1 ELSE IF startAt > TotalPages THEN TotalPages ELSE startAt,
   reader |-> "B", turner |-> "A", bookmarkedAt |-> 0]

readStart == reading' = beginReading(1) /\ UNCHANGED closing

\* Mutant: the last page can be turned.
PageInBookLast(page) == page >= 1 /\ page - 1 <= TotalPages

PageInBook(page) == page >= 1 /\ page <= TotalPages

turnPage(by, dir) ==
  /\ by = reading.turner /\ PageInBook(reading.page + dir)
  /\ reading' = [reading EXCEPT !.page = @ + dir]
  /\ UNCHANGED closing

swapReader ==
  reading' = [reading EXCEPT !.reader = Otherwise(@), !.turner = Otherwise(@)] /\ UNCHANGED closing

bookmarkReading == reading' = [reading EXCEPT !.bookmarkedAt = reading.page] /\ UNCHANGED closing

AroundInit == closing = beginClosing /\ reading = beginReading(1)

AroundNext ==
  \/ closeStart \/ skipClosing \/ \E text \in {"", "said"} : closingNext(text)
  \/ readStart \/ swapReader \/ bookmarkReading
  \/ \E by \in {"A", "B"}, dir \in {1, -1} : turnPage(by, dir)

-----------------------------------------------------------------------------
(* The pane. *)

CORNERS == <<"tl", "tr", "bl", "br">>
newPane == [corner |-> "br", size |-> "medium", closed |-> FALSE, displaced |-> FALSE, visible |-> TRUE]

PaneIs(p) == pane' = p /\ UNCHANGED <<cam, closedBy>>

dock(c) == PaneIs([pane EXCEPT !.corner = c, !.displaced = FALSE])

PaneSizes == <<"small", "medium", "large">>
cycleSize == PaneIs([pane EXCEPT !.size = PaneSizes[(IndexFirstSubSeq(<<@>>, PaneSizes) % 3) + 1]])

\* From a corner to the middle of a zone [x, y, w, h], squared, in fortieths.
Along(atEnd, from, length) == IF atEnd THEN 40 - (2 * from + length) ELSE 2 * from + length
cornerDistance(c, z) ==
  LET dx == Along(c \in {"tr", "br"}, z.x, z.w)
      dy == Along(c \in {"bl", "br"}, z.y, z.h)
  IN  dx * dx + dy * dy

NearestZone(c, zones) ==
  LET ds == {cornerDistance(c, z) : z \in zones} IN CHOOSE d \in ds : \A e \in ds : d <= e

\* The first of the corners whose nearest zone is farthest away.
BestCorner(zones) ==
  LET best == {n \in DOMAIN CORNERS : \A m \in DOMAIN CORNERS :
                 NearestZone(CORNERS[m], zones) <= NearestZone(CORNERS[n], zones)}
  IN  CORNERS[CHOOSE n \in best : \A m \in best : n <= m]

avoid(zones) ==
  PaneIs(IF zones = {} THEN [pane EXCEPT !.displaced = FALSE]
         ELSE [pane EXCEPT !.corner = BestCorner(zones), !.displaced = BestCorner(zones) # pane.corner])

\* paneHome: home is always the corner a new pane is in.
releaseZones == PaneIs(IF pane.displaced THEN [pane EXCEPT !.corner = "br", !.displaced = FALSE] ELSE pane)

\* Mutant: whoever asks.
MayCloseAny(role) == TRUE

MayClose(role) == role # "child"

closePane(role) ==
  /\ MayClose(role)
  /\ pane' = [pane EXCEPT !.closed = TRUE, !.visible = FALSE]
  /\ closedBy' = role /\ UNCHANGED cam

endCall ==
  /\ pane' = [pane EXCEPT !.closed = TRUE, !.visible = FALSE]
  /\ closedBy' = "call" /\ UNCHANGED cam

\* The renderer gives up; the sound has no part in it.
paneFailed ==
  /\ pane' = [pane EXCEPT !.visible = FALSE]
  /\ closedBy' = (IF closedBy = Nil THEN "renderer" ELSE closedBy) /\ UNCHANGED cam

\* camera.ts.
MAX_ZOOM == 4
camera == [facing |-> "front", mirrored |-> TRUE, zoom |-> 1]
flip ==
  LET facing == IF cam.facing = "front" THEN "rear" ELSE "front" IN
  /\ cam' = [facing |-> facing, mirrored |-> facing = "front", zoom |-> 1]
  /\ UNCHANGED <<pane, closedBy>>

setZoom(z) ==
  /\ cam' = [cam EXCEPT !.zoom = IF z < 1 THEN 1 ELSE IF z > MAX_ZOOM THEN MAX_ZOOM ELSE z]
  /\ UNCHANGED <<pane, closedBy>>

PaneInit == pane = newPane /\ cam = camera /\ closedBy = Nil

PaneNext ==
  \/ \E c \in ToSet(CORNERS) : dock(c)
  \/ cycleSize
  \/ \E zones \in ZoneSets : avoid(zones)
  \/ releaseZones
  \/ \E role \in {"child", "guardian"} : closePane(role)
  \/ endCall \/ paneFailed \/ flip
  \/ \E z \in 0 .. MAX_ZOOM + 1 : setZoom(z)

\* How much of a screen it takes, in pixels, and the largest size that leaves
\* three quarters of the screen to what she is doing.
SIZE_PERCENT == [small |-> 20, medium |-> 28, large |-> 38]
ABSOLUTE_FLOOR_PX == 88
paneWidth(v, size) ==
  LET short == IF v.w < v.h THEN v.w ELSE v.h
      px == (short * SIZE_PERCENT[size] + 50) \div 100
  IN  IF px < ABSOLUTE_FLOOR_PX THEN ABSOLUTE_FLOOR_PX ELSE px
paneHeight(v, size) == (8 * paneWidth(v, size) + 3) \div 6

sizeFits(v, size) == 4 * paneWidth(v, size) * paneHeight(v, size) <= v.w * v.h

bestFit(v) ==
  IF sizeFits(v, "large") THEN "large" ELSE IF sizeFits(v, "medium") THEN "medium" ELSE "small"

\* Who gets a window of the operating system, by what a probe saw, and by policy.
probeOsPip(role, kioskLocked, claims, observed) == role # "child" /\ ~kioskLocked /\ observed
pipFor(role, kioskLocked) ==
  IF role # "child" THEN "os_native" ELSE IF kioskLocked THEN "none" ELSE "in_layout"

-----------------------------------------------------------------------------
LiveCallInit == StreamInit /\ LiveInit /\ AroundInit /\ PaneInit

LiveCallNext ==
  \/ StreamNext /\ UNCHANGED <<liveVars, aroundVars, paneVars>>
  \/ LiveNext /\ UNCHANGED <<streamVars, aroundVars, paneVars>>
  \/ AroundNext /\ UNCHANGED <<streamVars, liveVars, paneVars>>
  \/ PaneNext /\ UNCHANGED <<streamVars, liveVars, aroundVars>>

LiveCallSpec == LiveCallInit /\ [][LiveCallNext]_liveCallVars

-----------------------------------------------------------------------------
(* Properties. *)

LiveCallTypeOK ==
  /\ stream.quality \in {720, 360, 180} /\ stream.trouble \in 0 .. DROP_AFTER - 1
  /\ stream.steady \in 0 .. RESTORE_AFTER - 1 /\ rung \in ToSet(CallLadder)
  /\ pane.corner \in ToSet(CORNERS) /\ cam.zoom \in 1 .. MAX_ZOOM /\ (cam.mirrored <=> cam.facing = "front")
  /\ liveConn \in {"good", "poor", "lost"}
  /\ closing.beat \in {"one_thing", "when_next", "the_goodbye", "done"}

\* How many steps the picture has been taken down.
StepsDown(s) == IF ~s.video THEN 3 ELSE CASE s.quality = 720 -> 0 [] s.quality = 360 -> 1 [] OTHER -> 2

LongestTick == CHOOSE ms \in Elapsed : \A other \in Elapsed : other <= ms

\* stream.ts: quick to shed: a line that goes on being bad has cost a step after
\* every few seconds of it, until only the voice is left; and the picture goes only
\* from the lowest quality.
QuickToShed ==
  /\ \A k \in 1 .. 3 : badFor >= k * (DROP_AFTER + LongestTick - 1) => StepsDown(stream) >= k
  /\ ~stream.video => stream.quality = 180

\* stream.ts: slow to restore, and never by more than a step: nothing of the picture
\* comes back before the line has been good on end for the whole of the wait.
SlowToRestore ==
  [StepsDown(stream') # StepsDown(stream) =>
     /\ StepsDown(stream') - StepsDown(stream) \in {-1, 1}
     /\ StepsDown(stream') < StepsDown(stream) => goodFor' >= RESTORE_AFTER]_streamVars

\* live.ts, draw: no prompt comes again before every other one has been seen, however
\* the deck falls; the lead changes with every round; and a game that needs the
\* camera is never made one of turns.
DeckComesRound ==
  live.kind # Nil =>
    /\ \A a, b \in DOMAIN shown : shown[a] <= shown[b] + 1
    /\ live.leader = (IF live.rounds % 2 = 0 THEN "B" ELSE "A")
    /\ live.degraded => LIVE_GAMES[live.kind]

\* live.ts, guessDrawing: the word is guessed once, last, and not by who draws it.
GuessedOnce ==
  /\ pict.solved <=> (pict.guesses # <<>> /\ Last(pict.guesses).correct)
  /\ \A n \in DOMAIN pict.guesses :
       pict.guesses[n].side # pict.drawer /\ (pict.guesses[n].correct => n = Len(pict.guesses))

\* around.ts: whoever reads does not turn the page, the book has no page before the
\* first or after the last, and a ritual that was not skipped went through its beats
\* in their order: a goodbye is said last, and after it is known when they meet.
CallWindsDown ==
  /\ reading.turner # reading.reader /\ reading.page \in 1 .. TotalPages
  /\ reading.bookmarkedAt # 0 => reading.bookmarkedAt \in 1 .. TotalPages
  /\ closing.goodbye # Nil => closing.beat = "done" /\ closing.nextTime # Nil
  /\ closing.beat = "done" /\ ~closing.skipped => closing.nextTime # Nil
  /\ closing.beat = "one_thing" => closingToAsk = Nil

\* pane.ts: his picture goes from her screen only with the call, by a grown-up or
\* where the renderer fails; it has an operating system's window only where both
\* that was seen to work and the policy says so; and the size chosen for a screen
\* is the largest that leaves three quarters of it to her.
PaneStays ==
  /\ pane.closed => closedBy \in {"guardian", "call"}
  /\ ~pane.visible => closedBy # Nil
  /\ \A role \in {"child", "guardian"}, locked, claims, observed \in BOOLEAN :
       probeOsPip(role, locked, claims, observed) => pipFor(role, locked) = "os_native" /\ observed
  /\ \A v \in Viewports, size \in ToSet(PaneSizes) :
       /\ SIZE_PERCENT[size] > SIZE_PERCENT[bestFit(v)] => ~sizeFits(v, size)
       /\ sizeFits(v, size) => sizeFits(v, bestFit(v))

\* pane.ts, avoid: wherever it is moved out of the way, no other corner would have
\* been farther from everything she is using.
OutOfTheWay ==
  [pane'.displaced /\ ~pane.displaced =>
     \E zones \in ZoneSets \ {{}} : \A c \in ToSet(CORNERS) :
       NearestZone(c, zones) <= NearestZone(pane'.corner, zones)]_paneVars
=============================================================================
