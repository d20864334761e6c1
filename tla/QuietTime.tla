------------------------------ MODULE QuietTime ------------------------------
(***************************************************************************)
(* What she does when nobody else is awake: colouring in, a doodle, spot   *)
(* the difference (packages/activities), and the stories she marks and     *)
(* stars (storyteller/library.ts), each as play.ts drives it.  A region, a *)
(* colour and a story are values of a small set; places are on a grid of   *)
(* hundredths of the picture, and a starred story carries a day.           *)
(***************************************************************************)
EXTENDS Integers, Sequences, FiniteSets
LOCAL INSTANCE SequencesExt

CONSTANTS
  Region, Hex, PickedFirst,   \* regions of the drawing; the palette, and its first colour
  MaxFills, MaxMarks, DOODLE_STAMPS,
  Scenes,                     \* the pictures to compare: Seq of the places of the differences
  Radius,                     \* of a finger
  Story, LinesOf,             \* LinesOf[s]: how many lines it has
  Seeded,                     \* the favourites of libSeed: Seq of [code, starredAt, timesRead]
  MinBook, LastStarDay, MaxReads

ASSUME QuietAssumption ==
  /\ PickedFirst \in Hex /\ Radius \in Nat /\ MinBook \in Nat
  /\ LinesOf \in [Story -> Nat \ {0}]

VARIABLES
  filled, fillHistory, colHex,    \* ColouringState, and the colour picked
  doodle, dooN,                   \* DoodleState.marks, and how many taps were made
  spotScene,                      \* Seq of [at, found]
  tale, storyReads, resumeFrom,   \* the story on the screen, and where to read on
  favs, marks, starDay            \* favourites, bookmarks, and the day

colourVars == <<filled, fillHistory, colHex>>
doodleVars == <<doodle, dooN>>
spotVars == <<spotScene>>
libraryVars == <<tale, storyReads, resumeFrom, favs, marks, starDay>>
quietVars == <<colourVars, doodleVars, spotVars, libraryVars>>

Uncoloured == "none"        \* an absent key, previous: null
NoLine == -1                \* resumeFrom: null

SceneOf(places) == [k \in DOMAIN places |-> [at |-> places[k], found |-> FALSE]]

QuietInit ==
  /\ filled = [r \in Region |-> Uncoloured] /\ fillHistory = <<>> /\ colHex = PickedFirst
  /\ doodle = <<>> /\ dooN = 0
  /\ spotScene \in {SceneOf(p) : p \in Scenes}
  /\ tale \in Story /\ storyReads = 1 /\ resumeFrom = NoLine
  /\ favs = <<>> /\ marks = <<>> /\ starDay = 1

-----------------------------------------------------------------------------
(* Colouring: a tap fills, a wrong colour too, and undo is exact.          *)

colStart == /\ filled' = [r \in Region |-> Uncoloured] /\ fillHistory' = <<>> /\ colHex' = PickedFirst
colPick(hex) == colHex' = hex /\ UNCHANGED <<filled, fillHistory>>

FillForgets(r) == [regionId |-> r, hex |-> colHex, previous |-> Uncoloured]
FillOf(r) == [regionId |-> r, hex |-> colHex, previous |-> filled[r]]

colTap(r) ==
  /\ Len(fillHistory) < MaxFills
  /\ filled' = [filled EXCEPT ![r] = colHex]
  /\ fillHistory' = Append(fillHistory, FillOf(r))
  /\ UNCHANGED colHex

colUndo ==
  /\ fillHistory # <<>>
  /\ LET last == Last(fillHistory) IN filled' = [filled EXCEPT ![last.regionId] = last.previous]
  /\ fillHistory' = Front(fillHistory) /\ UNCHANGED colHex

ColourNext == colStart \/ colUndo \/ \E hex \in Hex : colPick(hex) \/ \E r \in Region : colTap(r)

-----------------------------------------------------------------------------
(* The doodle: every mark is appended, and each tap has a number.          *)

dooStart == doodle' = <<>> /\ dooN' = 0

dooStroke ==
  /\ dooN < MaxMarks /\ dooN' = dooN + 1
  /\ doodle' = Append(doodle, [id |-> dooN + 1, what |-> "stroke"])

\* What is no stamp leaves no mark, and the tap is counted all the same.
dooStamp(kind) ==
  /\ dooN < MaxMarks /\ dooN' = dooN + 1
  /\ doodle' = IF kind \in DOODLE_STAMPS THEN Append(doodle, [id |-> dooN + 1, what |-> kind]) ELSE doodle

\* The number of a tap is not given back.
dooUndo == doodle # <<>> /\ doodle' = Front(doodle) /\ UNCHANGED dooN

DoodleNext == dooStart \/ dooStroke \/ dooUndo \/ \E kind \in DOODLE_STAMPS \cup {"skull"} : dooStamp(kind)

-----------------------------------------------------------------------------
(* Spot the difference: a tap finds the first one within reach.            *)

Within(p, q) == (p[1] - q[1]) * (p[1] - q[1]) + (p[2] - q[2]) * (p[2] - q[2]) <= Radius * Radius
Hits(p) == {k \in DOMAIN spotScene : Within(spotScene[k].at, p)}

HitsAny(p) == IF Hits(p) = {} THEN 0 ELSE CHOOSE k \in Hits(p) : \A j \in Hits(p) : k <= j
tapSpot(p) ==
  LET open == {k \in Hits(p) : ~spotScene[k].found} IN
  IF open = {} THEN 0 ELSE CHOOSE k \in open : \A j \in open : k <= j

spotRemaining(scene) == Cardinality({k \in DOMAIN scene : ~scene[k].found})

spotTap(p) ==
  /\ tapSpot(p) # 0
  /\ spotScene' = [spotScene EXCEPT ![tapSpot(p)].found = TRUE]

spotStart(places) == spotScene' = SceneOf(places)

SpotNext ==
  \/ \E places \in Scenes : spotStart(places)
  \/ \E p \in UNION {{spotScene[k].at} : k \in DOMAIN spotScene} : spotTap(p)

-----------------------------------------------------------------------------
(* Her stories: one bookmark each, a star that toggles, and the book.      *)

stNew(s) ==
  /\ tale' = s /\ storyReads' = 1 /\ resumeFrom' = NoLine /\ UNCHANGED <<favs, marks, starDay>>

\* Another story is read, and the count and the place of the last one go on.
stReread(s) ==
  /\ storyReads < MaxReads
  /\ tale' = s /\ storyReads' = storyReads + 1 /\ UNCHANGED <<resumeFrom, favs, marks, starDay>>

stAgain ==
  /\ storyReads < MaxReads
  /\ storyReads' = storyReads + 1 /\ UNCHANGED <<tale, resumeFrom, favs, marks, starDay>>

isStarred(s) == \E k \in DOMAIN favs : favs[k].code = s

libStar ==
  /\ favs' = IF isStarred(tale) THEN SelectSeq(favs, LAMBDA f : f.code # tale)
             ELSE Append(favs, [code |-> tale, starredAt |-> starDay, timesRead |-> storyReads])
  /\ starDay < LastStarDay /\ starDay' = starDay + 1
  /\ UNCHANGED <<tale, storyReads, resumeFrom, marks>>

libSeed == favs' = Seeded /\ UNCHANGED <<tale, storyReads, resumeFrom, marks, starDay>>

\* No mark on a line that is not there, nor on the last: that story is finished.
bookmarkAny(line) == line < LinesOf[tale]
bookmark(line) == line >= 0 /\ line < LinesOf[tale] /\ line # LinesOf[tale] - 1

saveBookmark(list, b) == Append(SelectSeq(list, LAMBDA x : x.code # b.code), b)

libMark(line) ==
  /\ bookmark(line) /\ marks' = saveBookmark(marks, [code |-> tale, lineIndex |-> line])
  /\ UNCHANGED <<tale, storyReads, resumeFrom, favs, starDay>>

libResume(k) ==
  /\ k \in DOMAIN marks
  /\ tale' = marks[k].code /\ resumeFrom' = marks[k].lineIndex
  /\ UNCHANGED <<storyReads, favs, marks, starDay>>

\* The pages of the printed book, and the shelf she sees.
compileBookUnsorted(list) == IF Len(list) < MinBook THEN <<>> ELSE list
compileBook(list) ==
  IF Len(list) < MinBook THEN <<>> ELSE SortSeq(list, LAMBDA f, g : f.starredAt < g.starredAt)
libraryChildView(list) ==
  LET newest == SortSeq(list, LAMBDA f, g : f.starredAt > g.starredAt)
  IN  [k \in DOMAIN newest |-> newest[k].code]

LibraryNext ==
  \/ \E s \in Story : stNew(s) \/ stReread(s)
  \/ stAgain \/ libStar \/ libSeed
  \/ \E line \in -1..3 : libMark(line)
  \/ \E k \in 1..Cardinality(Story) : libResume(k)

-----------------------------------------------------------------------------
(* Properties. *)

\* activities.ts, undoFill and undoDoodle: undo is exact.  What is on the picture is
\* what the fills still in the history put there, one after the other, so that
\* taking all of them back leaves the drawing she began with; and no two marks of
\* a doodle have the same number, whatever was taken back between them.
UndoIsExact ==
  LET LastFill(r, n) == {k \in 1..n : fillHistory[k].regionId = r /\ \A j \in k + 1..n : fillHistory[j].regionId # r}
      ColourAfter(r, n) == IF LastFill(r, n) = {} THEN {Uncoloured} ELSE {fillHistory[k].hex : k \in LastFill(r, n)}
  IN  /\ \A r \in Region : ColourAfter(r, Len(fillHistory)) = {filled[r]}
      /\ \A k \in DOMAIN fillHistory : ColourAfter(fillHistory[k].regionId, k - 1) = {fillHistory[k].previous}
      /\ \A j, k \in DOMAIN doodle : doodle[j].id = doodle[k].id => j = k

\* activities.ts, tapSpot: the picture can be finished.  A finger on a difference not
\* yet found finds one, also where one that was found lies under the same finger,
\* so as many taps as are left find them all.
EveryDifferenceIsFound ==
  \A k \in DOMAIN spotScene :
    ~spotScene[k].found =>
      LET hit == tapSpot(spotScene[k].at) IN
      hit # 0 /\ spotRemaining([spotScene EXCEPT ![hit].found = TRUE]) = spotRemaining(spotScene) - 1

\* library.ts: a story has one bookmark at most, on a line after which there is more
\* to read, and one star; the book reads oldest first and her shelf the other way
\* round, although stars were put on and taken off in any order.
ShelfAndBookAgree ==
  /\ \A j, k \in DOMAIN marks : marks[j].code = marks[k].code => j = k
  /\ \A k \in DOMAIN marks : marks[k].lineIndex \in 0..LinesOf[marks[k].code] - 2
  /\ \A j, k \in DOMAIN favs : favs[j].code = favs[k].code => j = k
  /\ LET pages == compileBook(favs) shelf == Reverse(libraryChildView(favs)) IN
     pages # <<>> =>
       /\ \A k \in 1..Len(pages) - 1 : pages[k].starredAt < pages[k + 1].starredAt
       /\ shelf = [k \in DOMAIN pages |-> pages[k].code]
=============================================================================
