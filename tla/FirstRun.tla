------------------------------ MODULE FirstRun ------------------------------
(***************************************************************************)
(* Her first run: her name, her age, her colour, her birthday and who she  *)
(* is here to talk to (packages/onboarding, calendar and palette, as       *)
(* play.ts and onboarding_who.dart drive them), and the games she has      *)
(* grown into since she last looked (games/favorites.ts and                *)
(* live_game_picker.dart).  Days are real days, <<year, month, day>>,      *)
(* because the rules about birthdays are about 29 February, the turn of a  *)
(* year and dates that do not exist.                                       *)
(***************************************************************************)
EXTENDS Integers, Sequences, FiniteSets
LOCAL INSTANCE FiniteSetsExt
LOCAL INSTANCE SequencesExt

CONSTANTS
  Days,                        \* days of the clock: two are neighbours or far apart
  MAX_NAME_LENGTH, MIN_AGE, MAX_AGE,
  Tapped,                      \* ages she may tap, or Skipped
  BirthDates,                  \* of the child record, or Skipped
  Grownup,
  PickedMonths, PickedDays,    \* what is tapped on the birthday picker
  PALETTE, MaxChoices,
  MinAges,                     \* the minAge of the games
  Device, Skipped

ASSUME FirstRunAssumption ==
  /\ {MAX_NAME_LENGTH, MIN_AGE, MAX_AGE, MaxChoices} \subseteq Nat /\ MIN_AGE <= MAX_AGE

VARIABLES
  theDay,                         \* today
  birthDate,                   \* what a guardian entered, or Skipped
  obName, ob, joined, whoScreen,
  passedOn,                    \* history: the day she passed the age step, who had joined at the who step
  picker, event, answer,       \* BirthdayPicker, BirthdayEvent; history: her answer and its day
  colourHistory, atDawn,       \* Seq of [colourId, chosenAt]; history: her colour as the day began
  visit, ageAtLastOpen,        \* visits to the game picker; child_game_picker_state
  announced, sinceAge, turned  \* history: shown as new; age first recorded; ages turned within a visit

firstVars == <<obName, ob, joined, whoScreen, passedOn>>
birthdayVars == <<picker, event, answer>>
colourHistoryVars == <<colourHistory, atDawn>>
visitVars == <<visit, ageAtLastOpen, announced, sinceAge, turned>>
firstRunVars == <<theDay, birthDate, firstVars, birthdayVars, colourHistoryVars, visitVars>>

-----------------------------------------------------------------------------
(* Dates. *)

isLeap(y) == (y % 4 = 0 /\ y % 100 # 0) \/ y % 400 = 0
MONTHS == <<31, 28, 31, 30, 31, 30, 31, 31, 30, 31, 30, 31>>
daysInMonth(y, m) == IF m = 2 /\ isLeap(y) THEN 29 ELSE MONTHS[m]

\* ISO dates compare as strings.
Iso(t) == 10000 * t[1] + 100 * t[2] + t[3]

\* Date.parse(): a day past the end of its month is one of the next.
DayNumber(t) ==
  LET y == t[1] - 1
  IN  365 * y + y \div 4 - y \div 100 + y \div 400
        + MapThenSumSet(LAMBDA m : daysInMonth(t[1], m), 1 .. (t[2] - 1)) + t[3]

Parsed(t) ==
  IF t[3] <= daysInMonth(t[1], t[2]) THEN t ELSE <<t[1], t[2] + 1, t[3] - daysInMonth(t[1], t[2])>>

Tomorrow(t) ==
  IF t[3] < daysInMonth(t[1], t[2]) THEN <<t[1], t[2], t[3] + 1>>
  ELSE IF t[2] < 12 THEN <<t[1], t[2] + 1, 1>> ELSE <<t[1] + 1, 1, 1>>

BeforeBirthday(b, now) == 100 * now[2] + now[3] < 100 * b[2] + b[3]

ageFrom(b, now) == now[1] - Parsed(b)[1] - (IF BeforeBirthday(Parsed(b), now) THEN 1 ELSE 0)

-----------------------------------------------------------------------------
(* The three steps and the two between them.  A name is a sequence of      *)
(* letters and blanks.                                                     *)

Letter == "x"
Blank == " "
You == <<"you">>            \* what stands for a name she skips

acceptName(typed) ==
  IF Letter \in ToSet(typed) THEN [spelled |-> typed, skipped |-> FALSE]
  ELSE [spelled |-> You, skipped |-> TRUE]

\* Mutant: what she taps is what she is.
AcceptTap(tapped, now) ==
  [selfReported |-> tapped, authoritative |-> Skipped, disagrees |-> FALSE, skipped |-> tapped = Skipped]

Clamped(n) == IF n < MIN_AGE THEN MIN_AGE ELSE IF n > MAX_AGE THEN MAX_AGE ELSE n

acceptAge(tapped, now) ==
  LET hers == IF tapped = Skipped THEN Skipped ELSE Clamped(tapped)
      real == IF birthDate = Skipped THEN Skipped ELSE ageFrom(birthDate, now)
  IN  [selfReported |-> hers, authoritative |-> real, skipped |-> tapped = Skipped,
       disagrees |-> hers # Skipped /\ real # Skipped /\ hers # real]

effectiveAge(a) == IF a.authoritative # Skipped THEN a.authoritative ELSE a.selfReported

whoStep(here) ==
  [kind |-> CASE here = {} -> "nobody_yet" [] \E g \in here : here = {g} -> "no_choice" [] OTHER -> "choose",
   selected |-> here]

\* Mutant: the last one can be turned off.
ToggleFreely(w, g) ==
  [w EXCEPT !.selected = IF g \in w.selected THEN w.selected \ {g} ELSE w.selected \cup {g}]

toggleWho(w, g) ==
  LET next == IF g \in w.selected THEN w.selected \ {g} ELSE w.selected \cup {g}
  IN  IF w.kind # "choose" \/ next = {} THEN w ELSE [w EXCEPT !.selected = next]

\* outcome(): the age of the product and whom she talks to, whatever screens she saw.
outcome(o) ==
  [age |-> IF o.age = Skipped THEN Skipped ELSE effectiveAge(o.age),
   talkingTo |-> IF o.who = Skipped \/ o.who.kind = "nobody_yet" THEN {} ELSE o.who.selected]

begin == [step |-> "name", name |-> Skipped, age |-> Skipped, who |-> Skipped]
order == <<"name", "age", "colour", "birthday", "who", "done">>
At(step) == CHOOSE k \in DOMAIN order : order[k] = step

FirstRunInit ==
  /\ theDay \in Days /\ birthDate \in BirthDates
  /\ obName = <<>> /\ ob = begin /\ joined = {} /\ whoScreen = Skipped
  /\ passedOn = [age |-> Skipped, who |-> {}]
  /\ picker = Skipped /\ event = Skipped /\ answer = Skipped
  /\ colourHistory = <<>> /\ atDawn = Skipped
  /\ visit = [d \in Device |-> Skipped] /\ ageAtLastOpen = Skipped
  /\ announced = {} /\ sinceAge = Skipped /\ turned = {}

\* obType: the name never gets longer than it may.
obType(ch) ==
  /\ ob.step = "name"
  /\ obName' = IF ch = "<" THEN (IF obName = <<>> THEN <<>> ELSE Front(obName))
               ELSE SubSeq(Append(obName, ch), 1, MAX_NAME_LENGTH)
  /\ UNCHANGED <<ob, joined, whoScreen, passedOn>>

\* advance(): every step can be passed, whatever she typed or tapped.  The screen
\* that asks who is here works out its choice when it is built.
NameNext ==
  /\ ob.step = "name" /\ ob' = [ob EXCEPT !.step = "age", !.name = acceptName(obName)]
  /\ UNCHANGED <<obName, joined, whoScreen, passedOn>>

AgeNext(tapped) ==
  /\ ob.step = "age" /\ ob' = [ob EXCEPT !.step = "colour", !.age = acceptAge(tapped, theDay)]
  /\ passedOn' = [passedOn EXCEPT !.age = <<tapped, theDay>>]
  /\ UNCHANGED <<obName, joined, whoScreen>>

ColourNextStep ==
  /\ ob.step = "colour" /\ ob' = [ob EXCEPT !.step = "birthday"]
  /\ UNCHANGED <<obName, joined, whoScreen, passedOn>>

BirthdayNextStep ==
  /\ ob.step = "birthday" /\ ob' = [ob EXCEPT !.step = "who"]
  /\ whoScreen' = whoStep(joined) /\ passedOn' = [passedOn EXCEPT !.who = joined]
  /\ UNCHANGED <<obName, joined>>

toggle(g) ==
  /\ ob.step = "who" /\ g \in passedOn.who
  /\ whoScreen' = toggleWho(whoScreen, g)
  /\ UNCHANGED <<obName, ob, joined, passedOn>>

WhoNext ==
  /\ ob.step = "who" /\ ob' = [ob EXCEPT !.step = "done", !.who = whoScreen]
  /\ UNCHANGED <<obName, joined, whoScreen, passedOn>>

\* The screen that is gone back to is built anew.
obBack ==
  /\ ob.step # "name" /\ ob' = [ob EXCEPT !.step = order[At(ob.step) - 1]]
  /\ IF ob.step = "done" THEN whoScreen' = whoStep(joined) /\ passedOn' = [passedOn EXCEPT !.who = joined]
     ELSE UNCHANGED <<whoScreen, passedOn>>
  /\ UNCHANGED <<obName, joined>>

\* An invitation is accepted meanwhile (see Invites).
Accepted(g) == g \notin joined /\ joined' = joined \cup {g} /\ UNCHANGED <<obName, ob, whoScreen, passedOn>>

OnboardingNext ==
  \/ \E ch \in {Letter, Blank, "<"} : obType(ch)
  \/ NameNext \/ ColourNextStep \/ BirthdayNextStep \/ WhoNext \/ obBack
  \/ \E tapped \in Tapped : AgeNext(tapped)
  \/ \E g \in Grownup : toggle(g) \/ Accepted(g)

-----------------------------------------------------------------------------
(* Her birthday, placed by herself: month, day and one question.           *)

beginPicker(age) ==
  [step |-> "month", month |-> Skipped, day |-> Skipped, year |-> Skipped, age |-> age]

\* Mutant: nobody asks whether the birthday is behind her.
DeriveWithoutAsking(age, had, now) == now[1] - age

deriveBirthYear(age, had, now) == now[1] - age - (IF had THEN 0 ELSE 1)

pickedDate(p) ==
  IF Skipped \in {p.month, p.day, p.year} THEN Skipped ELSE <<p.year, p.month, p.day>>

\* resolveBirthday, markBirthday: the guardian's date is the one of record.
markBirthday(p) ==
  LET ofRecord == IF birthDate # Skipped THEN birthDate ELSE pickedDate(p)
  IN  [month |-> ofRecord[2], day |-> ofRecord[3]]

bdStart(age) == picker' = beginPicker(age) /\ event' = Skipped /\ answer' = Skipped

bdMonth(m) ==
  /\ picker # Skipped
  /\ picker' = [picker EXCEPT !.month = m, !.day = Skipped, !.step = "day"]
  /\ answer' = Skipped /\ UNCHANGED event

\* pickDay: 29 February can be picked before the year is known.  Without a date of
\* record and without an age there is no year to derive.
bdDay(d) ==
  /\ picker # Skipped /\ picker.month # Skipped /\ d <= daysInMonth(2024, picker.month)
  /\ \/ /\ birthDate # Skipped
        /\ picker' = [picker EXCEPT !.day = d, !.year = birthDate[1], !.step = "done"]
        /\ event' = markBirthday(picker')
     \/ /\ birthDate = Skipped /\ picker.age # Skipped
        /\ picker' = [picker EXCEPT !.day = d, !.step = "year_check"]
        /\ UNCHANGED event
  /\ answer' = Skipped

\* answerYearCheck, bdYear: a birthday that has yet to come is refused.
bdYear(had) ==
  /\ picker # Skipped /\ picker.step = "year_check"
  /\ LET y == deriveBirthYear(picker.age, had, theDay)
     IN  /\ DayNumber(<<y, picker.month, picker.day>>) <= DayNumber(theDay)
         /\ picker' = [picker EXCEPT !.year = y, !.step = "done"]
  /\ event' = markBirthday(picker')
  /\ answer' = [on |-> theDay, had |-> had]

BirthdayNext ==
  \/ \E age \in Tapped : bdStart(age)
  \/ \E m \in PickedMonths : bdMonth(m)
  \/ \E d \in PickedDays : bdDay(d)
  \/ \E had \in BOOLEAN : bdYear(had)

\* Mutant: no rule for 29 February.
OccurrenceAsWritten(e, y) == <<y, e.month, e.day>>

\* LEAP_DAY_OBSERVED_ON.
occurrenceIn(e, y) ==
  IF e.month = 2 /\ e.day = 29 /\ ~isLeap(y) THEN <<y, 2, 28>> ELSE <<y, e.month, e.day>>

sleepsUntilBirthday(e, today) ==
  LET this == occurrenceIn(e, today[1])
      next == IF Iso(this) < Iso(today) THEN occurrenceIn(e, today[1] + 1) ELSE this
  IN  DayNumber(next) - DayNumber(today)

-----------------------------------------------------------------------------
(* Her colour, and what a parent is told of it.                            *)

currentColour(h) == IF h = <<>> THEN Skipped ELSE Last(h).colourId

palPick(c) ==
  /\ Len(colourHistory) < MaxChoices
  /\ colourHistory' = Append(colourHistory, [colourId |-> c, chosenAt |-> theDay])
  /\ UNCHANGED atDawn

ColoursNext == \E c \in PALETTE : palPick(c)

\* Mutant: any tap today is a change.
AnyTapIsChange(h, today) == \E k \in DOMAIN h : h[k].chosenAt = today

changedToday(h, today) ==
  LET todays == SelectSeq(h, LAMBDA x : x.chosenAt = today)
      prior  == SelectSeq(h, LAMBDA x : Iso(x.chosenAt) < Iso(today))
  IN  todays # <<>> /\ (prior = <<>> \/ Last(prior).colourId # currentColour(h))

-----------------------------------------------------------------------------
(* What is new on the game picker since she last opened it.                *)

newlyUnlocked(age, last) == IF last = Skipped THEN {} ELSE {m \in MinAges : last < m /\ m <= age}

\* Mutant: the visit is recorded before the row is read.
OpenAfterRecording(d) ==
  /\ announced' = announced \cup newlyUnlocked(ageFrom(birthDate, theDay), ageFrom(birthDate, theDay))
  /\ UNCHANGED <<ageAtLastOpen, sinceAge, turned>>

\* GET .../game-favorites.
Opened(d) ==
  /\ announced' = announced \cup newlyUnlocked(ageFrom(birthDate, theDay), ageAtLastOpen)
  /\ UNCHANGED <<ageAtLastOpen, sinceAge, turned>>

OpenPicker(d) ==
  /\ birthDate # Skipped /\ visit[d] = Skipped
  /\ visit' = [visit EXCEPT ![d] = "shown"]
  /\ Opened(d)

\* PUT .../game-favorites, recordGamePickerOpen: her age is worked out anew by the
\* server; the client neither waits for the answer nor repeats the call.
recordGamePickerOpen(d) ==
  /\ visit[d] # Skipped /\ visit' = [visit EXCEPT ![d] = Skipped]
  /\ ageAtLastOpen' = ageFrom(birthDate, theDay)
  /\ sinceAge' = IF sinceAge = Skipped THEN ageAtLastOpen' ELSE sinceAge
  /\ UNCHANGED <<announced, turned>>

LoseVisit(d) ==
  /\ visit[d] # Skipped /\ visit' = [visit EXCEPT ![d] = Skipped]
  /\ UNCHANGED <<ageAtLastOpen, announced, sinceAge, turned>>

VisitsNext == \E d \in Device : OpenPicker(d) \/ recordGamePickerOpen(d) \/ LoseVisit(d)

-----------------------------------------------------------------------------

Midway == {d \in Device : visit[d] # Skipped}

Midnight(t) ==
  /\ DayNumber(t) > DayNumber(theDay) /\ theDay' = t
  /\ atDawn' = currentColour(colourHistory)
  /\ turned' = IF Midway = {} THEN turned
               ELSE turned \cup (ageFrom(birthDate, theDay) + 1) .. ageFrom(birthDate, t)
  /\ UNCHANGED <<birthDate, firstVars, birthdayVars, colourHistory, visit, ageAtLastOpen, announced, sinceAge>>

FirstRunNext ==
  \/ OnboardingNext /\ UNCHANGED <<theDay, birthDate, birthdayVars, colourHistoryVars, visitVars>>
  \/ BirthdayNext /\ UNCHANGED <<theDay, birthDate, firstVars, colourHistoryVars, visitVars>>
  \/ ColoursNext /\ UNCHANGED <<theDay, birthDate, firstVars, birthdayVars, visitVars>>
  \/ VisitsNext /\ UNCHANGED <<theDay, birthDate, firstVars, birthdayVars, colourHistoryVars>>
  \/ \E t \in Days : Midnight(t)

-----------------------------------------------------------------------------

FirstRunTypeOK ==
  /\ obName \in Seq({Letter, Blank}) /\ Len(obName) <= MAX_NAME_LENGTH
  /\ ob.step \in ToSet(order) /\ joined \subseteq Grownup /\ announced \subseteq MinAges
  /\ visit \in [Device -> {Skipped, "shown"}]

\* onboarding.ts, acceptAge: nothing she taps raises a gate, however often she goes
\* back and taps again: where a guardian entered a birth date, the age the product
\* uses is never above the one that date gives.
TapsRaiseNothing ==
  ob.age # Skipped /\ birthDate # Skipped => outcome(ob).age \in 0 .. ageFrom(birthDate, theDay)

\* onboarding.ts, whoStep and toggleWho: she never ends up with nobody: where anyone
\* had joined as she was asked, she talks to somebody, and to nobody who had not.
NeverNobody ==
  ob.who # Skipped =>
    /\ outcome(ob).talkingTo \subseteq joined
    /\ outcome(ob).talkingTo = {} => ob.who.kind = "nobody_yet"

\* calendar.ts, deriveBirthYear: whoever gives her own month, day and age and an
\* honest answer is found her own date of birth, on 29 February and on the last of
\* a year too.
HerOwnDate ==
  answer # Skipped =>
    \A y \in 2000 .. answer.on[1] :
      LET b == <<y, picker.month, picker.day>>
      IN  /\ Parsed(b) = b /\ ageFrom(b, answer.on) = picker.age
          /\ answer.had <=> ~BeforeBirthday(b, answer.on)
          => pickedDate(picker) = b

\* calendar.ts, sleepsUntilBirthday and occurrenceIn: the sleeps count down by one
\* each night to a birthday that comes every year, in a year without her day too.
SleepsCountDown ==
  event # Skipped /\ event' = event /\ theDay' = Tomorrow(theDay) =>
    LET n == sleepsUntilBirthday(event, theDay)
    IN  sleepsUntilBirthday(event, theDay)' \in IF n > 0 THEN {n - 1} ELSE {364, 365}

\* palette.ts, parentView: a parent is told of a change when her colour is another
\* one than it was as the day began, and not because she tapped.
ChangeIsAChange == changedToday(colourHistory, theDay) <=> currentColour(colourHistory) # atDawn

\* favorites.ts and live_game_picker.dart: a game she has grown into since her first
\* visit was shown to her as new, unless she grew into it between the two requests
\* of one visit; visits that are not recorded and two devices lose none.
NewIsAnnounced ==
  sinceAge # Skipped =>
    \A m \in MinAges : sinceAge < m /\ m <= ageAtLastOpen => m \in announced \cup turned
=============================================================================
