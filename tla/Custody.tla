------------------------------- MODULE Custody -------------------------------
(***************************************************************************)
(* The custody schedule (packages/custody) and what the routes make of it: *)
(* whose day it is, the countdown of sleeps, the exchanges of a range, and *)
(* the parent shown to her as free.  Dates are day numbers of her calendar *)
(* (day 0 is the anchor, and begins a year of YearDays days); clock times  *)
(* are minutes of a day of DayMinutes.  Zones are left out.                *)
(***************************************************************************)
EXTENDS Integers, FiniteSets

CONSTANTS
  YearDays, DayMinutes, MaxLookahead,
  Parent,            \* guardian ids, totally ordered: natural numbers
  Orders, WindowSets,  \* the custody orders and stored availability to ask about
  FirstDay, LastDay,
  Unset

ASSUME CustodyAssumption ==
  /\ YearDays \in Nat \ {0} /\ DayMinutes \in Nat \ {0} /\ MaxLookahead \in Nat
  /\ Parent \subseteq Nat /\ {FirstDay, LastDay} \subseteq Int /\ Unset \notin Parent

VARIABLES custody_order, availability, day, minute
custodyVars == <<custody_order, availability, day, minute>>

Side == {"A", "B"}
OtherSide(s) == IF s = "A" THEN "B" ELSE "A"

\* The days of a fourteen-day cycle that side A holds.
CYCLES == [threes |-> {0, 1, 4, 5, 6, 9, 10}, fives |-> {0, 1, 4, 5, 6, 7, 8}, weeks |-> 0..6]

\* Mutant: the remainder of a day before the anchor is left negative.
dayIndexSigned(d) == IF d < 0 THEN -((-d) % 14) ELSE d % 14

dayIndex(d) == d % 14
patternSideOn(order, d) == IF dayIndex(d) \in CYCLES[order.pattern] THEN "A" ELSE "B"

MonthDay(d) == d % YearDays
EvenYear(d) == (d \div YearDays) % 2 = 0

\* A rule may wrap the new year.
FallsIn(rule, d) ==
  IF rule.start <= rule.end THEN MonthDay(d) \in rule.start..rule.end
  ELSE MonthDay(d) >= rule.start \/ MonthDay(d) <= rule.end

NoHoliday == [name |-> "none", side |-> "A"]

\* The rule of the highest priority, then the later start.
holidayOn(order, d) ==
  LET matches == {h \in order.holidays : FallsIn(h, d)} IN
  IF matches = {} THEN NoHoliday
  ELSE LET rule == CHOOSE h \in matches : \A k \in matches :
                     \/ h.priority > k.priority
                     \/ h.priority = k.priority /\ h.start >= k.start
       IN  [name |-> rule.name,
            side |-> IF EvenYear(d) THEN rule.evenYearSide ELSE OtherSide(rule.evenYearSide)]

sideOn(order, d) ==
  LET h == holidayOn(order, d) IN
  [name |-> h.name, side |-> IF h = NoHoliday THEN patternSideOn(order, d) ELSE h.side]

Effective(order, d) == d >= order.effectiveFrom /\ (order.effectiveTo = Unset \/ d <= order.effectiveTo)

SameBlock(s, t) == s = t

\* The first days of the contiguous blocks between two dates.
blocks(order, from, to) ==
  {d \in from..to : /\ Effective(order, d)
                    /\ d - 1 \in from..to /\ Effective(order, d - 1)
                         => ~SameBlock(sideOn(order, d - 1), sideOn(order, d))}

\* Sleeps until the side changes, or Unset when it does not in the lookahead.
sleepsUntilSideChange(order, d) ==
  LET changes == {i \in 1..MaxLookahead : sideOn(order, d + i).side # sideOn(order, d).side} IN
  IF changes = {} THEN Unset ELSE CHOOSE i \in changes : \A j \in changes : i <= j

\* A handover at the start of every block but the first of the range.
exchanges(order, from, to) ==
  LET starts == blocks(order, from, to)
      later == {d \in starts : \E e \in starts : e < d}
  IN  {[localDate |-> d, from |-> sideOn(order, d - 1).side, to |-> sideOn(order, d).side] : d \in later}

\* External: the order in force is the row whose dates cover the day, if any.
activeCustodyOrder == custody_order # Unset /\ Effective(custody_order, day)

\* GET .../now
sleepsUntilHandover == IF activeCustodyOrder THEN sleepsUntilSideChange(custody_order, day) ELSE Unset

\* Stored windows never wrap midnight: a CHECK of guardian_availability_window.
isWindowActiveNow(w, m) == m >= w.startLocal /\ m < w.endLocal

OnDuty ==
  IF ~activeCustodyOrder THEN Unset
  ELSE IF sideOn(custody_order, day).side = "A" THEN custody_order.sideA ELSE custody_order.sideB

ActiveWindows ==
  {w \in availability : /\ w.guardianId # OnDuty /\ w.weekday = day % 7
                        /\ isWindowActiveNow(w, minute)}

\* Earliest window first, then the guardian id.
Before(w, v) == w.startLocal < v.startLocal \/ (w.startLocal = v.startLocal /\ w.guardianId <= v.guardianId)

\* GET .../presence
freeGuardianNow ==
  IF ActiveWindows = {} THEN Unset
  ELSE CHOOSE w \in ActiveWindows : \A v \in ActiveWindows : Before(w, v)

RibbonWeekday == day % 7

\* GET .../ribbon, actorWindows: what a parent sees of their own day.
ribbon(guardian) == {w \in availability : w.guardianId = guardian /\ w.weekday = RibbonWeekday}

CustodyInit ==
  /\ custody_order \in Orders \cup {Unset} /\ availability \in WindowSets
  /\ day = FirstDay /\ minute = 0

MinutePasses ==
  /\ \/ minute + 1 < DayMinutes /\ minute' = minute + 1 /\ UNCHANGED day
     \/ minute + 1 = DayMinutes /\ day < LastDay /\ minute' = 0 /\ day' = day + 1
  /\ UNCHANGED <<custody_order, availability>>

CustodyNext == MinutePasses
CustodySpec == CustodyInit /\ [][CustodyNext]_custodyVars

-----------------------------------------------------------------------------
(* Properties. *)

\* schedule.ts, CYCLES: from whatever day one counts, also before the anchor, the
\* rotation gives each side seven of any fourteen days.
FairShare ==
  custody_order # Unset =>
  Cardinality({d \in day..day + 13 : patternSideOn(custody_order, d) = "A"}) = 7

\* schedule.ts, sleepsUntilSideChange: the countdown falls by one a night, and the
\* night it says is the last one is followed by a day of the other side,
\* holidays and the turn of the year included.
CountdownKeepsItsWord ==
  [day' # day /\ sleepsUntilHandover # Unset /\ activeCustodyOrder' =>
     IF sleepsUntilHandover = 1
     THEN sideOn(custody_order, day').side # sideOn(custody_order, day).side
     ELSE sleepsUntilHandover' = sleepsUntilHandover - 1]_custodyVars

\* schedule.ts, exchanges: over any week the listed handovers miss no change of
\* side, and each one hands over what the one before it received.
HandoversChain ==
  custody_order # Unset =>
  LET range == exchanges(custody_order, day, day + 6)
      dates == {x.localDate : x \in range}
  IN  /\ \A d \in day + 1..day + 6 :
           Effective(custody_order, d - 1) /\ Effective(custody_order, d) =>
             sideOn(custody_order, d - 1).side = sideOn(custody_order, d).side \/ d \in dates
      /\ \A x, y \in range :
           x.localDate < y.localDate /\ dates \cap (x.localDate + 1 .. y.localDate - 1) = {}
             => x.to = y.from

\* routes.mjs, GET .../presence: the parent shown as free until a time is not
\* replaced by another before that time on the same day.
PresenceKeepsItsWord ==
  [day' = day /\ freeGuardianNow # Unset /\ minute' < freeGuardianNow.endLocal
     => freeGuardianNow' = freeGuardianNow]_custodyVars

\* routes.mjs, GET .../presence and GET .../ribbon: a parent is shown as free only
\* in a window that their own ribbon of the day shows them, and never on duty.
ShownFreeKnowsIt ==
  freeGuardianNow # Unset =>
    /\ freeGuardianNow \in ribbon(freeGuardianNow.guardianId)
    /\ activeCustodyOrder => freeGuardianNow.guardianId #
         (IF sideOn(custody_order, day).side = "A" THEN custody_order.sideA ELSE custody_order.sideB)
=============================================================================
