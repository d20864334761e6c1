------------------------------ MODULE GrowingUp ------------------------------
(***************************************************************************)
(* What becomes hers with the years (packages/maturation): the ladder of   *)
(* grants, a rung two guardians shift, the hours she publishes, and each   *)
(* child of a family leaving it in turn.  Ages are years, hours a grid of  *)
(* DayMinutes minutes; recordGrants is called when somebody opens the app, *)
(* which may be years after a birthday.                                    *)
(***************************************************************************)
EXTENDS Integers, FiniteSets

CONSTANTS
  StartAge, EndAge,
  Consenting,          \* the guardians who may be named as consenting
  SlotMinutes,         \* minutes of the day the board is asked about
  Answers,             \* Availability values
  Kid                  \* the children of the family

ASSUME GrowingAssumption ==
  /\ StartAge \in Nat /\ EndAge \in Nat /\ SlotMinutes \in Nat \ {0}
  /\ Consenting # {} /\ IsFiniteSet(Kid)

VARIABLES
  age, ladder,      \* her age; the rungs as the guardians have shifted them
  grants,           \* MaturationGrant: [grant, age]
  windows,          \* AvailabilityBoard.windows of one weekday
  closedFor,        \* children whose guardianship has closed
  remainingSaid     \* what the last closing said was left

growingVars == <<age, ladder, grants, windows, closedFor, remainingSaid>>

LADDER == [own_list |-> 10, journal_absolute |-> 13, own_calendar |-> 14,
           publish_availability |-> 15, curate_archive |-> 16, own_export |-> 17, everything |-> 18]
Grant == DOMAIN LADDER

\* The scaffolds that fade, with the age each fades at.
QUIETING == [sleeps_countdown |-> 11, prompt_decks |-> 13, send_time_guard_child_side |-> 14,
             game_prominence |-> 14, day_part_labels |-> 15, handicap_offer |-> 15, ritual_reminders |-> 16]

scaffoldsAt(a) == {feature \in DOMAIN QUIETING : a < QUIETING[feature]}
surfacesAt(a) ==
  [faded |-> {feature \in DOMAIN QUIETING : a >= QUIETING[feature]}, showing |-> scaffoldsAt(a)]
sendGuardApplies(side, a) == side = "B" \/ "send_time_guard_child_side" \in scaffoldsAt(a)

GrowingInit ==
  /\ age = StartAge /\ ladder = LADDER /\ grants = {} /\ windows = {}
  /\ closedFor = {} /\ remainingSaid = Cardinality(Kid)

holds(g) == \E x \in grants : x.grant = g

Birthday == age < EndAge /\ age' = age + 1 /\ UNCHANGED <<ladder, grants, windows, closedFor, remainingSaid>>

\* What stays on record, with the rungs newly reached.
Recorded ==
  grants \cup {[grant |-> g, age |-> age] : g \in {h \in Grant : age >= LADDER[h] /\ ~holds(h)}}

recordGrants == grants' = Recorded /\ UNCHANGED <<age, ladder, windows, closedFor, remainingSaid>>

\* Later, and by two names; the list of names is counted, not told apart.
adjustRung(g, newAge, first, second) ==
  /\ newAge >= ladder[g] /\ newAge <= EndAge + 1
  /\ ladder' = [ladder EXCEPT ![g] = newAge]
  /\ UNCHANGED <<age, grants, windows, closedFor, remainingSaid>>

Clashes(w, x) == w.startMinute < x.endMinute /\ x.startMinute < w.endMinute

publishWindow(w) ==
  /\ holds("publish_availability")
  /\ w.startMinute < w.endMinute
  /\ ~\E x \in windows : Clashes(w, x)
  /\ windows' = windows \cup {w}
  /\ UNCHANGED <<age, ladder, grants, closedFor, remainingSaid>>

unpublishWindow(w) ==
  /\ w \in windows /\ windows' = windows \ {w}
  /\ UNCHANGED <<age, ladder, grants, closedFor, remainingSaid>>

\* The states some published window gives a minute; none leaves the inferred one.
Published(minute) ==
  {w.state : w \in {x \in windows : minute >= x.startMinute /\ minute < x.endMinute}}

resolveAvailability(minute, inferred) ==
  IF Published(minute) = {} THEN [state |-> inferred, source |-> "inferred"]
  ELSE [state |-> CHOOSE s \in Published(minute) : TRUE, source |-> "published"]

RemainingAfter(kid) == Cardinality(Kid \ (closedFor \cup {kid}))

closeFor(kid) ==
  /\ kid \notin closedFor
  /\ closedFor' = closedFor \cup {kid} /\ remainingSaid' = RemainingAfter(kid)
  /\ UNCHANGED <<age, ladder, grants, windows>>

Window == [startMinute : 0..SlotMinutes, endMinute : 0..SlotMinutes, state : Answers]

GrowingNext ==
  \/ Birthday \/ recordGrants
  \/ \E g \in {"publish_availability", "own_export"}, newAge \in 15..18, first, second \in Consenting :
       adjustRung(g, newAge, first, second)
  \/ \E w \in Window : publishWindow(w) \/ unpublishWindow(w)
  \/ \E kid \in Kid : closeFor(kid)

GrowingSpec == GrowingInit /\ [][GrowingNext]_growingVars

-----------------------------------------------------------------------------
(* Properties. *)

\* maturation.ts, "there is no revoke()": whatever is adjusted or called again, a
\* rung reached is never taken back, keeps the age it was reached at, and is
\* recorded once.
GrantsOnlyGrow ==
  [grants \subseteq grants' /\ \A x, y \in grants' : x.grant = y.grant => x = y]_growingVars

\* rungs.ts, resolveAvailability: no minute has two published answers, so what the
\* ribbon shows is hers, whatever was inferred; and only one who holds the rung
\* has published any.
OneAnswerAMinute ==
  /\ \A minute \in 0..SlotMinutes - 1 : \A s, t \in Published(minute) : s = t
  /\ windows # {} => holds("publish_availability")
  /\ \A w, x \in windows : w.startMinute = x.startMinute => w = x

\* family.ts, closeFor: the number said to be left is the number of children still
\* open, in whatever order they leave.
RemainingIsTrue == remainingSaid = Cardinality(Kid \ closedFor)

\* maturation.ts, surfacesAt: at every age each scaffold is either showing or
\* faded, and one that has faded does not come back with a birthday.
FadedStaysFaded ==
  [age' # age =>
     /\ surfacesAt(age).faded \subseteq surfacesAt(age').faded
     /\ surfacesAt(age').faded \cap surfacesAt(age').showing = {}
     /\ sendGuardApplies("A", age') => sendGuardApplies("A", age)]_growingVars
=============================================================================
