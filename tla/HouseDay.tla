------------------------------ MODULE HouseDay ------------------------------
(***************************************************************************)
(* What two houses write and read about a child around a handover: her     *)
(* theme, who runs late, who arrived when, notes of care, and the hours    *)
(* the adults are free.  A write is admitted by one session and stored by  *)
(* another; the hours are read by two, the guardians first.                *)
(***************************************************************************)
EXTENDS Integers, Sequences, FiniteSets

CONSTANTS
  Sister,             \* children
  Adult, ParentAdult, \* the adults, and the parents among them
  HouseEdges,         \* the edges at the start, as <<adult, child>>
  HouseRequest,
  DayHours, ExchangeHour, LastHour,  \* the clock, and the hour the order names
  HourSlot,           \* windows an adult may set
  MaxRows,            \* of each table that only grows
  CARE_NOTE_TTL,
  Plain               \* the theme of a child nobody has chosen one for

ASSUME HouseDayAssumption ==
  /\ ParentAdult \subseteq Adult /\ HouseEdges \subseteq Adult \X Sister
  /\ DayHours \in Nat \ {0} /\ ExchangeHour \in 0..(DayHours - 1) /\ CARE_NOTE_TTL \in Nat

VARIABLES
  effective_guardianship,    \* set of <<adult, child>>: edges that are live
  child_theme_preference,    \* who chose it, by child
  exchange_arrival_event,    \* rows, as they were created
  care_note,
  freeHours,                 \* guardian_availability_window, by adult
  houseReq,                  \* what each request is doing
  hour,
  withoutEdge                \* history: themes stored for who had no edge any more

houseVars == <<effective_guardianship, child_theme_preference, exchange_arrival_event, care_note,
               freeHours, houseReq, hour, withoutEdge>>

HouseIdle == [pc |-> "idle"]

HouseDayInit ==
  /\ effective_guardianship = HouseEdges
  /\ child_theme_preference = [s \in Sister |-> Plain]
  /\ exchange_arrival_event = <<>> /\ care_note = {}
  /\ freeHours = [a \in Adult |-> {}]
  /\ houseReq = [r \in HouseRequest |-> HouseIdle]
  /\ hour = 0 /\ withoutEdge = {}

guardiansOfChild(s) == {a \in Adult : <<a, s>> \in effective_guardianship}
parentGuardiansOfChild(s) == guardiansOfChild(s) \cap ParentAdult

HouseGo(r, q) == houseReq' = [houseReq EXCEPT ![r] = q]

\* Admitted: the edge is looked up, in a session of its own.
Admit(r, a, s, op) ==
  /\ houseReq[r].pc = "idle" /\ <<a, s>> \in effective_guardianship
  /\ HouseGo(r, [pc |-> op, by |-> a, child |-> s, at |-> hour])
  /\ UNCHANGED <<effective_guardianship, child_theme_preference, exchange_arrival_event, care_note,
                 freeHours, hour, withoutEdge>>

\* Mutant: the theme is stored in a system session, past the policy.
AsGuardianUnasked(a, s) == TRUE

\* WITH CHECK (actor_has_edge(child_id)): her own session stores it, or fails.
AsGuardian(a, s) == <<a, s>> \in effective_guardianship

setChildTheme(r) ==
  LET q == houseReq[r] IN
  /\ q.pc = "theme"
  /\ IF AsGuardian(q.by, q.child)
     THEN /\ child_theme_preference' = [child_theme_preference EXCEPT ![q.child] = q.by]
          /\ withoutEdge' = IF q.by \in guardiansOfChild(q.child) THEN withoutEdge
                            ELSE withoutEdge \cup {q.by}
     ELSE UNCHANGED <<child_theme_preference, withoutEdge>>
  /\ HouseGo(r, HouseIdle)
  /\ UNCHANGED <<effective_guardianship, exchange_arrival_event, care_note, freeHours, hour>>

themeFor(s) == child_theme_preference[s]

MaxOf(m, n) == IF m >= n THEN m ELSE n

\* The hour the order of that date names; the date is hers when it was admitted.
ScheduledOn(at) == (at \div DayHours) * DayHours + ExchangeHour

\* Mutant: the difference as it comes, negative for who is early.
delayMinutesSigned(at, arrived) == arrived - ScheduledOn(at)

delayMinutes(at, arrived) == MaxOf(0, arrived - ScheduledOn(at))

\* arrived_at is the server's clock before the row is written.
ReadArrivalClock(r) ==
  /\ houseReq[r].pc = "arrival" /\ Len(exchange_arrival_event) < MaxRows
  /\ HouseGo(r, [pc |-> "arrived", by |-> houseReq[r].by, child |-> houseReq[r].child,
                 at |-> houseReq[r].at, arrived |-> hour])
  /\ UNCHANGED <<effective_guardianship, child_theme_preference, exchange_arrival_event, care_note,
                 freeHours, hour, withoutEdge>>

recordExchangeArrival(r) ==
  LET q == houseReq[r] IN
  /\ q.pc = "arrived"
  /\ exchange_arrival_event' = Append(exchange_arrival_event,
       [child |-> q.child, by |-> q.by, scheduled |-> ScheduledOn(q.at), arrived |-> q.arrived,
        delay |-> delayMinutes(q.at, q.arrived)])
  /\ HouseGo(r, HouseIdle)
  /\ UNCHANGED <<effective_guardianship, child_theme_preference, care_note, freeHours, hour, withoutEdge>>

\* The newest row of hers.
arrivalEventFor(s) ==
  LET hers == {i \in DOMAIN exchange_arrival_event : exchange_arrival_event[i].child = s}
  IN  {exchange_arrival_event[i] : i \in {j \in hers : \A k \in hers : k <= j}}

\* The expiry counts from the clock of the server, read as the note is checked.
writeCareNoteRow(r) ==
  LET q == houseReq[r] IN
  /\ q.pc = "note" /\ Cardinality(care_note) < MaxRows
  /\ care_note' = care_note \cup {[child |-> q.child, by |-> q.by, at |-> hour,
                                   expires |-> hour + CARE_NOTE_TTL]}
  /\ HouseGo(r, HouseIdle)
  /\ UNCHANGED <<effective_guardianship, child_theme_preference, exchange_arrival_event, freeHours,
                 hour, withoutEdge>>

careNotesFor(s) == {n \in care_note : n.child = s /\ n.expires > hour}

\* Her whole week, in one transaction (see SharedRows).
SetHours(a, hours) ==
  /\ hours # freeHours[a]
  /\ freeHours' = [freeHours EXCEPT ![a] = hours]
  /\ UNCHANGED <<effective_guardianship, child_theme_preference, exchange_arrival_event, care_note,
                 houseReq, hour, withoutEdge>>

\* Mutant: everybody's windows, whoever they are guardians of.
WhoseHoursAll(s) == Adult

WhoseHours(s) == guardiansOfChild(s)

\* First session: who her guardians are.
AskHours(r, s) ==
  /\ houseReq[r].pc = "idle"
  /\ HouseGo(r, [pc |-> "hours", child |-> s, ids |-> WhoseHours(s)])
  /\ UNCHANGED <<effective_guardianship, child_theme_preference, exchange_arrival_event, care_note,
                 freeHours, hour, withoutEdge>>

\* Second session: their windows, all in one statement.
availabilityFor(r) ==
  LET q == houseReq[r] IN
  /\ q.pc = "hours"
  /\ HouseGo(r, [pc |-> "shown", child |-> q.child, had |-> q.ids,
                 windows |-> {w \in q.ids \X HourSlot : w[2] \in freeHours[w[1]]}])
  /\ UNCHANGED <<effective_guardianship, child_theme_preference, exchange_arrival_event, care_note,
                 freeHours, hour, withoutEdge>>

HoursRead(r) ==
  /\ houseReq[r].pc = "shown" /\ HouseGo(r, HouseIdle)
  /\ UNCHANGED <<effective_guardianship, child_theme_preference, exchange_arrival_event, care_note,
                 freeHours, hour, withoutEdge>>

EdgeEnds(a, s) ==
  /\ <<a, s>> \in effective_guardianship
  /\ effective_guardianship' = effective_guardianship \ {<<a, s>>}
  /\ UNCHANGED <<child_theme_preference, exchange_arrival_event, care_note, freeHours, houseReq, hour,
                 withoutEdge>>

HourPasses ==
  /\ hour < LastHour /\ hour' = hour + 1
  /\ UNCHANGED <<effective_guardianship, child_theme_preference, exchange_arrival_event, care_note,
                 freeHours, houseReq, withoutEdge>>

HouseServe(r) ==
  \/ setChildTheme(r) \/ ReadArrivalClock(r) \/ recordExchangeArrival(r) \/ writeCareNoteRow(r)
  \/ availabilityFor(r) \/ HoursRead(r)

\* What requests of these kinds, and the rest of the world, may do.
HouseNext(ops) ==
  \/ \E r \in HouseRequest, s \in Sister :
       \/ \E a \in Adult, op \in ops \ {"hours"} : Admit(r, a, s, op)
       \/ "hours" \in ops /\ AskHours(r, s)
  \/ \E r \in HouseRequest : HouseServe(r)
  \/ \E a \in Adult, hours \in SUBSET HourSlot : "hours" \in ops /\ SetHours(a, hours)
  \/ \E a \in Adult, s \in Sister : EdgeEnds(a, s)
  \/ HourPasses

HouseOps == {"theme", "arrival", "note", "hours"}
HouseDayNext == HouseNext(HouseOps)

HouseDaySpec == HouseDayInit /\ [][HouseDayNext]_houseVars

-----------------------------------------------------------------------------
(* Properties. *)

\* 0017_child_theme_preference.sql: a guardian whose edge ends while her request
\* is between two sessions stores nothing, although she had been let in.
ThemeByHerGuardians ==
  /\ withoutEdge = {}
  /\ \A s \in Sister : themeFor(s) # Plain => <<themeFor(s), s>> \in HouseEdges

\* pool.ts, availabilityFor: the hours shown to a child are of adults who are or
\* were her guardians, also where an edge ends between the two sessions: nobody's
\* hours reach a child he was never a guardian of, and no parent with a live edge
\* to her is left out of those whose hours she asks for.
HoursAreOfHers ==
  /\ \A r \in HouseRequest : houseReq[r].pc = "shown" =>
       \A w \in houseReq[r].windows : <<w[1], houseReq[r].child>> \in HouseEdges
  /\ \A s \in Sister : parentGuardiansOfChild(s) \subseteq WhoseHours(s)

\* pool.ts, recordExchangeArrival: a delay on record is how late that arrival was
\* by the order, no less and no more; whoever is early is never told off, and a
\* request that waited past midnight is held to the day it was made.
DelayIsTrue ==
  \A s \in Sister : \A e \in arrivalEventFor(s) :
    /\ e.delay >= 0 /\ e.child = s
    /\ e.delay > 0 => e.arrived = e.scheduled + e.delay
    /\ e.delay = 0 => e.arrived <= e.scheduled

\* guardian.ts, writeCareNote: a note about a child is shown for the days it was
\* given from when it was written, and to nobody after them.
NotesFade ==
  \A s \in Sister : careNotesFor(s) = {n \in care_note : n.child = s /\ hour - n.at < CARE_NOTE_TTL}
=============================================================================
